---- MODULE Spec2Model ----
(***************************************************************************)
(* Model of the socket transport of virglrenderer's render server:         *)
(*   src/src/proxy/proxy_socket.c  (client role, "proxy")                  *)
(*   src/server/render_socket.c    (server role, "render")                 *)
(* One direction of one socket pair is modelled: a sending endpoint and    *)
(* the receiving peer.  rrole is the role of the receiver ("render": the   *)
(* proxy sends requests, "proxy": the render server sends replies).        *)
(*                                                                         *)
(* build is the build variant.  "darwin" is the __APPLE__ build (stream    *)
(* framing over SOCK_STREAM, CMSG alignment 4); "linux" is the other build *)
(* (native framing over SOCK_SEQPACKET) on an LP64 target, where control   *)
(* messages are aligned to 8 bytes.                                        *)
(*                                                                         *)
(* Every step is one underlying system call together with the local code   *)
(* that runs up to the next system call or the return.  The kernel is the  *)
(* environment: the K... operators give what a call can do.  Descriptors   *)
(* passed with SCM_RIGHTS are installed in the receiver while they fit in  *)
(* its control buffer and the rest is discarded with MSG_CTRUNC; data      *)
(* queued before the peer closed is still delivered.                       *)
(*                                                                         *)
(* The callers follow the contract of the transport: one call at a time on *)
(* an endpoint, and an endpoint whose send or receive returned failure is  *)
(* only closed afterwards.                                                 *)
(*                                                                         *)
(* Spec has hard I/O errors (EIO) in every system call; SpecFds adds the   *)
(* sending caller closing its own descriptors; SpecSig has the transient   *)
(* errors (EINTR, EAGAIN) instead of the hard one, and the liveness probe. *)
(* SpecFault has callers that break the contract on sizes and descriptor   *)
(* counts: an assertion that fails stops the endpoint (pc "fault"), as in  *)
(* a build with assertions enabled.  SpecProc is a process that creates    *)
(* socket pairs and probes the type of sockets.  SpecConc has two callers  *)
(* that send on one stream endpoint without serializing their calls.       *)
(* SpecFault also constructs the endpoints from any descriptor and has the *)
(* liveness probe.  SpecArr adds receive calls that pass no descriptor     *)
(* array.  SpecLive has write and sendmsg results of 0 bytes, under weak   *)
(* fairness of the steps of each process.  SpecXchg is a strict            *)
(* request/reply exchange of the two roles under weak fairness, with       *)
(* transient errors only.  SpecWide computes the stream header for sizes   *)
(* of the width of size_t, kept as the pair of their upper and lower 32    *)
(* bits.                                                                   *)
(***************************************************************************)
EXTENDS Integers, Sequences, FiniteSets, TLC

\* ---- bounds of the model ------------------------------------------------
MaxSize == 2
MaxFdCount == 2
WireCap == 9
MaxOpen == 5
ConcCap == 20
MaxLow == 24

VARIABLES
    build,      \* "linux" | "darwin"
    signals,    \* the calls of this run fail with EINTR and EAGAIN, not with EIO
    rrole,      \* role of the receiving endpoint: "render" | "proxy"
    wire,       \* what the kernel holds in flight from sender to receiver
    s,          \* the sending endpoint and its send call in progress
    r,          \* the receiving endpoint and its receive call in progress
    sent,       \* history: the messages sent and not yet received, oldest first,
                \* each with the result of its send call and the number of
                \* sendmsg calls that moved its payload
    last,       \* <<result>> of the receive call that has just returned
    sOpen,      \* the sender's own descriptors are still open
    rTab,       \* descriptors of the receiving process that its receive call holds
    transient,  \* the last step was a system call failing with EINTR or EAGAIN
    conn,       \* <<result>> of the is_connected call that returned in the last step
    proc,       \* a process that creates socket pairs and probes sockets: its
                \* descriptor table, and the result of its last call
    conc,       \* callers that send on one stream endpoint without serializing:
                \* the send call of each, and whether two calls ever overlapped
    wide        \* <<the header a stream send has built for a payload whose size
                \* may need more than 32 bits, with the size declared>>

vars == <<build, signals, rrole, wire, s, r, sent, last, sOpen, rTab, transient, conn,
          proc, conc, wide>>

\* ---- constants of the program -------------------------------------------
RENDER_SOCKET_MAX_FD_COUNT == 8
PROXY_SOCKET_MAX_FD_COUNT == 8

MAX_FD_COUNT(role) ==
    IF role = "render" THEN RENDER_SOCKET_MAX_FD_COUNT ELSE PROXY_SOCKET_MAX_FD_COUNT

\* #ifdef __APPLE__
Stream == build = "darwin"

Min(a, b) == IF a < b THEN a ELSE b
Range(q) == {q[i] : i \in DOMAIN q}

Other(role) == IF role = "render" THEN "proxy" ELSE "render"

\* ---- struct stream_msg_header { uint32_t size; uint32_t fd_count; } -------
\* (uint32_t)x in memory, native (little-endian) byte order: the low four bytes
U32Bytes(x) ==
    << x % 256, (x \div 256) % 256, (x \div 65536) % 256, (x \div 16777216) % 256 >>

BytesU32(b) == b[1] + 256 * b[2] + 65536 * b[3] + 16777216 * b[4]

\* the 8 bytes of hdr = { .size = (uint32_t)size, .fd_count = (uint32_t)fd_count }
stream_msg_header_nofds(size, fd_count) == U32Bytes(size) \o U32Bytes(0)
stream_msg_header_swapped(size, fd_count) == U32Bytes(fd_count) \o U32Bytes(size)
stream_msg_header(size, fd_count) == U32Bytes(size) \o U32Bytes(fd_count)

hdr_size_wrong(b) == BytesU32(SubSeq(b, 5, 8))
hdr_size(b) == BytesU32(SubSeq(b, 1, 4))
hdr_fd_count(b) == BytesU32(SubSeq(b, 5, 8))

\* ---- control messages -----------------------------------------------------
\* sizeof(struct cmsghdr) and the CMSG alignment of the build
CmsgHdrSize == IF build = "linux" THEN 16 ELSE 12
CmsgAlign(n) ==
    IF build = "linux" THEN ((n + 7) \div 8) * 8 ELSE ((n + 3) \div 4) * 4

CMSG_LEN(n) == CmsgAlign(CmsgHdrSize) + n
CMSG_SPACE(n) == CmsgAlign(CmsgHdrSize) + CmsgAlign(n)

\* memset(cmsg, 0, sizeof(*cmsg)): cmsg_level 0 is not SOL_SOCKET
ZeroCmsg == [level |-> "zero", type |-> "zero", len |-> 0, data |-> <<>>]

\* a struct msghdr with one iovec
MsgHdr(iov_len, control, controllen) ==
    [iov_len |-> iov_len, control |-> control, controllen |-> controllen,
     cmsg |-> ZeroCmsg, flags |-> {}]

NoMsg == MsgHdr(0, FALSE, 0)

\* get_received_fds: the descriptors of the first control message
get_received_fds_short(msg) ==
    IF \/ msg.controllen < CmsgHdrSize
       \/ msg.cmsg.level # "SOL_SOCKET"
       \/ msg.cmsg.type # "SCM_RIGHTS"
       \/ msg.cmsg.len < CMSG_LEN(0)
    THEN <<>>
    ELSE SubSeq(msg.cmsg.data, 1, ((msg.cmsg.len - CMSG_LEN(0)) \div 4) - 1)
get_received_fds(msg) ==
    IF \/ msg.controllen < CmsgHdrSize
       \/ msg.cmsg.level # "SOL_SOCKET"
       \/ msg.cmsg.type # "SCM_RIGHTS"
       \/ msg.cmsg.len < CMSG_LEN(0)
    THEN <<>>
    ELSE SubSeq(msg.cmsg.data, 1, (msg.cmsg.len - CMSG_LEN(0)) \div 4)

\* errno == EAGAIN || errno == EINTR
IsTransientAny(e) == TRUE
IsTransientOnlyEintr(e) == e = "EINTR"
IsTransient(e) == e \in {"EINTR", "EAGAIN"}

\* a system call returns -1 with errno set, or a count
Failed(e) == [ret |-> -1, errno |-> e]
Returned(n) == [ret |-> n, errno |-> ""]

\* the errno values the environment of a run makes a call fail with: under
\* signals the transient ones, otherwise a hard one
Errnos == IF signals THEN {"EINTR", "EAGAIN"} ELSE {"EIO"}

\* ---- the callers' inputs --------------------------------------------------
\* payload of a message: n bytes, different in every position, and different
\* from the bytes of the messages sent just before and after it (tag 1 or 2)
Payload(tag, n) == [i \in 1..n |-> 16 * tag + i]

\* the descriptor arrays a caller passes to send: its descriptors 1..k;
\* descriptor d of the sender refers to open file d
FdArrays == {[i \in 1..k |-> i] : k \in 0..MaxFdCount}

\* ---- the kernel -----------------------------------------------------------
\* lowest descriptor numbers not in use, as open(2) and SCM_RIGHTS allocate
RECURSIVE NewFds(_, _)
NewFds(used, n) ==
    IF n = 0 THEN <<>>
    ELSE LET x == CHOOSE y \in 3..(3 + Cardinality(used)) :
                      y \notin used /\ \A z \in 3..(y - 1) : z \in used
         IN <<x>> \o NewFds(used \cup {x}, n - 1)

TabFds(tab) == {e.fd : e \in tab}

\* stream socket: bytes in flight, the descriptors of a sendmsg riding on its
\* first byte
KStreamAppend(w, bytes, files) ==
    w \o [i \in 1..Len(bytes) |->
            [b |-> bytes[i], fds |-> IF i = 1 THEN files ELSE <<>>]]

\* seqpacket socket: one record per sendmsg
KDgramAppend(w, bytes, files) == Append(w, [data |-> bytes, fds |-> files])

\* bytes the socket buffer holds, and the room left in it: a send blocks while
\* there is none.  A datagram is charged its length plus 3 for bookkeeping.
RECURSIVE KDgramBytes(_)
KDgramBytes(w) ==
    IF w = <<>> THEN 0 ELSE Len(Head(w).data) + 3 + KDgramBytes(Tail(w))
KRoom == WireCap - (IF Stream THEN Len(wire) ELSE KDgramBytes(wire))

\* the parts in which the kernel transfers a header of which `left` bytes are
\* missing when `avail` bytes can move: up to the end of the header or of its
\* first field
KHdrParts(left, avail) == {n \in 1..Min(left, avail) : (left - n) % 4 = 0}

\* number of leading bytes one receive call can return: a receive never reads
\* past the first byte of a later sendmsg that carries descriptors
RECURSIVE KRun(_, _)
KRun(w, i) ==
    IF i > Len(w) THEN i - 1
    ELSE IF i > 1 /\ w[i].fds # <<>> THEN i - 1
    ELSE KRun(w, i + 1)

\* descriptors of an arriving message are installed while they fit in the
\* control buffer; the rest is discarded and MSG_CTRUNC is flagged
KFdMax(msg) ==
    IF msg.control /\ msg.controllen >= CmsgHdrSize
    THEN (msg.controllen - CmsgHdrSize) \div 4 ELSE 0

\* Descriptors that arrive for a receive without a control buffer are
\* discarded: Linux flags MSG_CTRUNC, a BSD kernel may discard them silently.
KFlagsDropped == IF Stream THEN BOOLEAN ELSE {TRUE}

\* recvmsg(fd, msg, flags) delivering `bytes` with in-flight `files`;
\* total is the length of the whole datagram (native) or of bytes (stream);
\* flagged: discarding descriptors for want of a control buffer is flagged
KDeliver(msg, tab, bytes, total, files, cloexec, flagged) ==
    LET n    == Min(Len(files), KFdMax(msg))
        nums == NewFds(TabFds(tab), n)
        fl   == (IF total > Len(bytes) THEN {"MSG_TRUNC"} ELSE {})
                  \cup (IF Len(files) > n /\ (msg.control \/ flagged)
                        THEN {"MSG_CTRUNC"} ELSE {})
    IN [ret  |-> Len(bytes),
        errno |-> "",
        data |-> bytes,
        msg  |-> [msg EXCEPT
                    !.flags = fl,
                    !.controllen = IF n > 0 THEN CMSG_SPACE(4 * n) ELSE 0,
                    !.cmsg = IF n > 0
                             THEN [level |-> "SOL_SOCKET", type |-> "SCM_RIGHTS",
                                   len |-> CMSG_LEN(4 * n), data |-> nums]
                             ELSE @],
        tab  |-> tab \cup {[fd |-> nums[i], file |-> files[i], cloexec |-> cloexec]
                              : i \in 1..n}]

KFail(msg, tab, e) ==
    [ret |-> -1, errno |-> e, data |-> <<>>, msg |-> msg, tab |-> tab]
KEof(msg, tab) ==
    [ret |-> 0, errno |-> "", data |-> <<>>, msg |-> msg, tab |-> tab]

\* recvmsg called without MSG_CMSG_CLOEXEC
MSG_CMSG_CLOEXEC_unset == FALSE

\* MSG_CMSG_CLOEXEC is defined to 0 in the __APPLE__ build
MSG_CMSG_CLOEXEC == ~Stream

\* the table entries of the descriptors fds, in the order of fds
Entries(tab, fds) ==
    [i \in 1..Len(fds) |->
        IF fds[i] \in TabFds(tab)
        THEN <<CHOOSE e \in tab : e.fd = fds[i]>> ELSE <<>>]

\* close(fd) / set_cloexec(fd) in the receiving process
CloseFds(tab, fds) == {e \in tab : \A i \in 1..Len(fds) : fds[i] # e.fd}
set_cloexec(tab, fds) ==
    {IF \E i \in 1..Len(fds) : fds[i] = e.fd THEN [e EXCEPT !.cloexec = TRUE] ELSE e
       : e \in tab}


\* ---- initial state --------------------------------------------------------
\* the process of the pair factory and the probe, before its first call; an
\* entry of its descriptor table is [fd, type, cloexec], type the socket type
\* or "file" for a descriptor that is not a socket
IdleProc == [tab |-> {}, out |-> <<>>, probe |-> <<>>]

\* fd is the one field of struct proxy_socket / struct render_socket; zero is
\* history: the parity of the number of write or sendmsg calls of the send in
\* progress that returned 0
IdleS == [pc |-> "idle", tag |-> 2, size |-> 0, data |-> <<>>, fds |-> <<>>,
          remaining |-> <<>>, total_sent |-> 0, fds_sent |-> FALSE,
          closes |-> 0, fd |-> 3, zero |-> 0]

\* chan and reads are history: the state of the channel when the call began,
\* and the number of recvmsg calls that returned payload; closes counts the
\* calls of close on the descriptor of the endpoint; nofds says that the caller
\* passed fds = NULL
IdleR == [pc |-> "idle", cap |-> 0, maxfd |-> 0, hdr |-> <<>>, hsize |-> 0,
          total_read |-> 0, buf |-> <<>>, msg |-> NoMsg,
          out_fd_count |-> 0, fds |-> <<>>, chan |-> "open", reads |-> 0,
          closes |-> 0, fd |-> 3, nofds |-> FALSE]

\* proxy_socket_init / render_socket_init on the endpoint e:
\* assert(fd >= 0), then the descriptor is stored
AssertFdNone(fd) == TRUE
AssertFd(fd) == fd >= 0
socket_init(e, fd) ==
    IF AssertFd(fd) THEN [e EXCEPT !.fd = fd] ELSE [e EXCEPT !.pc = "fault", !.fd = fd]

\* the callers of the concurrent sends before their first call: each has the
\* locals of its send call
Callers == {1, 2}
IdleConc == [thr |-> [t \in Callers |-> IdleS], overlap |-> FALSE]
InCall(c) == c.pc \in {"write_all", "sendmsg"}

\* proxy_socket_init / render_socket_init on the two ends of a fresh pair
InitPair ==
    /\ build \in {"linux", "darwin"}
    /\ rrole \in {"render", "proxy"}
    /\ wire = <<>>
    /\ s = IdleS
    /\ r = IdleR
    /\ sent = <<>>
    /\ last = <<>>
    /\ sOpen = TRUE
    /\ rTab = {}
    /\ transient = FALSE
    /\ conn = <<>>
    /\ proc = IdleProc
    /\ conc = IdleConc
    /\ wide = <<>>

Init == InitPair /\ signals = FALSE
InitSig == InitPair /\ signals = TRUE

\* ---- sending: proxy_socket_send_request_internal,
\* ---- render_socket_send_reply_internal
SetRes(log, res, moved) ==
    IF log = <<>> THEN log
    ELSE [log EXCEPT ![Len(log)].res = res, ![Len(log)].parts = @ + moved]

\* the call returns; e is the errno logged with a failure
SendReturn(ok, e) ==
    /\ s' = [IdleS EXCEPT !.pc = IF ok THEN "idle" ELSE "failed", !.tag = s.tag,
                           !.fd = s.fd]
    /\ sent' = SetRes(sent, IF ok THEN "ok" ELSE e, IF ok THEN 1 ELSE 0)

\* assert(data && size)
AssertDataSizeNone(size) == TRUE
AssertDataSize(size) == size # 0

\* assert(fds && fd_count <= MAX_FD_COUNT), under if (fd_count) / if (max_fd_count)
AssertFdCount(role, fd_count) == fd_count <= MAX_FD_COUNT(role)

\* the caller's own descriptors after a step of a send: the send copies them
\* into the control block and calls close on none of them
SenderFdsClosed(open) == FALSE
SenderFds(open) == open

\* the call, up to its first system call or to the assertion that fails
socket_send_internal(n, fds) ==
    /\ s.pc = "idle"
    /\ fds = <<>> \/ sOpen
    /\ IF ~AssertDataSize(n) \/ (~Stream /\ ~AssertFdCount(Other(rrole), Len(fds)))
       THEN /\ s' = [IdleS EXCEPT !.pc = "fault", !.tag = s.tag, !.size = n, !.fds = fds,
                                   !.fd = s.fd]
            /\ UNCHANGED sent
       ELSE
       LET m == 3 - s.tag IN
       /\ s' = [pc |-> IF Stream THEN "write_all" ELSE "sendmsg",
                tag |-> m,
                size |-> n,
                data |-> Payload(m, n),
                fds |-> fds,
                remaining |-> IF Stream THEN stream_msg_header(n, Len(fds)) ELSE <<>>,
                total_sent |-> 0,
                fds_sent |-> FALSE,
                closes |-> s.closes,
                fd |-> s.fd,
                zero |-> 0]
       /\ sent' = Append(sent, [data |-> Payload(m, n), fds |-> fds, res |-> "run",
                                 parts |-> 0])
    /\ transient' = FALSE
    /\ conn' = <<>>
    /\ last' = <<>>
    /\ sOpen' = SenderFds(sOpen)
    /\ UNCHANGED <<wide, conc, proc, build, signals, rrole, wire, r, rTab>>

\* what write(2) on the socket can return
KWriteResults ==
    {Failed(e) : e \in Errnos}
    \cup (IF r.pc = "closed" THEN {Failed("EPIPE")}
          ELSE {Returned(n) : n \in KHdrParts(Len(s.remaining), KRoom)})

\* one iteration of the loop of proxy_socket_write_all / render_socket_write_all
socket_write_all_on(K) ==
    /\ s.pc = "write_all"
    /\ \E res \in K :
         LET n == res.ret IN
         IF n < 0
         THEN IF IsTransient(res.errno)
              THEN /\ transient' = TRUE                        \* continue
                   /\ UNCHANGED <<wire, s, sent>>
              ELSE /\ SendReturn(FALSE, res.errno)             \* return false
                   /\ transient' = FALSE
                   /\ UNCHANGED wire
         ELSE /\ wire' = KStreamAppend(wire, SubSeq(s.remaining, 1, n), <<>>)
              \* after the header: if (fd_count) assert(fds && fd_count <= MAX)
              /\ s' = [s EXCEPT
                         !.zero = IF n = 0 THEN 1 - @ ELSE @,
                         !.remaining = SubSeq(@, n + 1, Len(@)),
                         !.pc = IF n < Len(s.remaining) THEN @
                                ELSE IF AssertFdCount(Other(rrole), Len(s.fds))
                                THEN "sendmsg" ELSE "fault"]
              /\ sent' = IF n = Len(s.remaining)
                            /\ ~AssertFdCount(Other(rrole), Len(s.fds))
                         THEN SetRes(sent, "assert", 0) ELSE sent
              /\ transient' = FALSE
    /\ conn' = <<>>
    /\ last' = <<>>
    /\ sOpen' = SenderFds(sOpen)
    /\ UNCHANGED <<wide, conc, proc, build, signals, rrole, r, rTab>>

socket_write_all == socket_write_all_on(KWriteResults)

\* the same loop on a kernel whose write can report that it moved no byte
KWriteZero ==
    KWriteResults \cup (IF r.pc = "closed" THEN {} ELSE {Returned(0)})
socket_write_all_zero == socket_write_all_on(KWriteZero)

\* the struct msghdr a send hands to sendmsg: one iovec of `size` bytes and,
\* under if (fd_count), a control block with one SCM_RIGHTS message
SendMsgHdrSpace(size, fd_count, fds) ==
    IF fd_count = 0 THEN MsgHdr(size, FALSE, 0)
    ELSE [MsgHdr(size, TRUE, CMSG_SPACE(4 * fd_count)) EXCEPT
            !.cmsg = [level |-> "SOL_SOCKET", type |-> "SCM_RIGHTS",
                      len |-> CMSG_SPACE(4 * fd_count),
                      data |-> SubSeq(fds, 1, fd_count)]]
SendMsgHdr(size, fd_count, fds) ==
    IF fd_count = 0 THEN MsgHdr(size, FALSE, 0)
    ELSE [MsgHdr(size, TRUE, CMSG_SPACE(4 * fd_count)) EXCEPT
            !.cmsg = [level |-> "SOL_SOCKET", type |-> "SCM_RIGHTS",
                      len |-> CMSG_LEN(4 * fd_count),
                      data |-> SubSeq(fds, 1, fd_count)]]

\* the descriptors sendmsg(2) takes from the control block of msg: as many as
\* the length field of its SCM_RIGHTS message counts
KSendFiles(msg) ==
    IF \/ ~msg.control
       \/ msg.controllen < CmsgHdrSize
       \/ msg.cmsg.level # "SOL_SOCKET"
       \/ msg.cmsg.type # "SCM_RIGHTS"
       \/ msg.cmsg.len < CMSG_LEN(0)
    THEN <<>>
    ELSE SubSeq(msg.cmsg.data, 1,
                Min((msg.cmsg.len - CMSG_LEN(0)) \div 4, Len(msg.cmsg.data)))

\* if (!fds_sent && msg->msg_control): the control block goes with this call
AttachAlways(fds_sent, control) == control
AttachControl(fds_sent, control) == ~fds_sent /\ control

\* what sendmsg(2) can return: the whole message on a seqpacket socket, any
\* positive part of it on a stream socket
KSendmsgResults ==
    {Failed(e) : e \in Errnos}
    \cup (IF r.pc = "closed" THEN {Failed("EPIPE")}
          ELSE IF Stream
          THEN {Returned(n) : n \in 1..Min(s.size - s.total_sent, KRoom)}
          ELSE IF s.size + 3 <= KRoom THEN {Returned(s.size)} ELSE {})

\* a sendmsg(2) on a seqpacket socket that reports fewer bytes than the
\* message has: no kernel does, the code asserts on it
KSendmsgShort ==
    IF ~Stream /\ r.pc # "closed" /\ s.size + 3 <= KRoom
    THEN {Returned(n) : n \in 1..(s.size - 1)} ELSE {}

\* assert(msg->msg_iovlen == 1 && msg->msg_iov[0].iov_len == (size_t)s)
AssertWholeSendNone(iov_len, n) == TRUE
AssertWholeSend(iov_len, n) == iov_len = n

\* one iteration of the loop of proxy_socket_sendmsg / render_socket_sendmsg,
\* on the results K that sendmsg(2) can return
socket_sendmsg_on(K) ==
    /\ s.pc = "sendmsg"
    /\ \E res \in K :
         LET n == res.ret
             msg == SendMsgHdr(s.size, Len(s.fds), s.fds)
             control == msg.control
         IN
         IF n < 0
         THEN IF IsTransient(res.errno)
              THEN /\ transient' = TRUE                        \* continue
                   /\ UNCHANGED <<wire, s, sent>>
              ELSE /\ SendReturn(FALSE, res.errno)             \* return false
                   /\ transient' = FALSE
                   /\ UNCHANGED wire
         ELSE IF Stream
         THEN /\ wire' = KStreamAppend(wire,
                           SubSeq(s.data, s.total_sent + 1, s.total_sent + n),
                           IF AttachControl(s.fds_sent, control)
                           THEN KSendFiles(msg) ELSE <<>>)
              /\ IF s.total_sent + n < s.size
                 THEN /\ s' = [s EXCEPT !.total_sent = @ + n, !.fds_sent = control,
                                         !.zero = IF n = 0 THEN 1 - @ ELSE @]
                      /\ sent' = SetRes(sent, "run", IF n > 0 THEN 1 ELSE 0)
                 ELSE SendReturn(TRUE, "")
              /\ transient' = FALSE
         ELSE /\ wire' = KDgramAppend(wire, SubSeq(s.data, 1, n), KSendFiles(msg))
              /\ IF AssertWholeSend(s.size, n)
                 THEN SendReturn(TRUE, "")
                 ELSE /\ s' = [s EXCEPT !.pc = "fault"]
                      /\ sent' = SetRes(sent, "assert", 0)
              /\ transient' = FALSE
    /\ conn' = <<>>
    /\ last' = <<>>
    /\ sOpen' = SenderFds(sOpen)
    /\ UNCHANGED <<wide, conc, proc, build, signals, rrole, r, rTab>>

socket_sendmsg == socket_sendmsg_on(KSendmsgResults)

\* the same call on a kernel whose sendmsg can report that it moved no byte
KSendmsgZero ==
    KSendmsgResults \cup (IF r.pc = "closed" THEN {} ELSE {Returned(0)})
socket_sendmsg_zero == socket_sendmsg_on(KSendmsgZero)

\* the same call on a kernel that reports a short count
socket_sendmsg_short == socket_sendmsg_on(KSendmsgShort)

\* proxy_socket_fini / render_socket_fini: close(socket->fd), on the endpoint
\* e; the endpoint is not used again
socket_fini_noclose(e) == [e EXCEPT !.pc = "closed"]
socket_fini(e) == [e EXCEPT !.pc = "closed", !.closes = @ + 1]

\* proxy_socket_fini / render_socket_fini of the sending endpoint
sender_fini ==
    /\ s.pc \in {"idle", "failed"}
    /\ s' = socket_fini(s)
    /\ transient' = FALSE
    /\ conn' = <<>>
    /\ last' = <<>>
    /\ UNCHANGED <<wide, conc, proc, build, signals, rrole, wire, r, sent, sOpen, rTab>>

\* the sending caller closes its own copies of the descriptors it has just sent
sender_close_fds ==
    /\ sOpen
    /\ s.pc = "idle"
    /\ \E m \in Range(sent) \cup Range(IF last = <<>> THEN <<>> ELSE last[1].msg) :
          m.res = "ok" /\ m.fds # <<>>
    /\ sOpen' = FALSE
    /\ transient' = FALSE
    /\ conn' = <<>>
    /\ UNCHANGED <<wide, conc, proc, build, signals, rrole, wire, s, r, sent, last, rTab>>


\* ---- receiving: proxy_socket_receive_reply_internal,
\* ---- render_socket_receive_request_internal
\* the call returns: the result is what the caller sees, plus the reason logged
RecvReturn(ok, why, size, buf, nfd, fds, tab) ==
    /\ r' = [IdleR EXCEPT !.pc = IF ok THEN "idle"
                                 ELSE IF why = "assert" THEN "fault" ELSE "failed",
                           !.fd = r.fd]
    /\ last' = <<[ok |-> ok, why |-> why, size |-> size, data |-> buf,
                  nfd |-> nfd, fds |-> fds, cap |-> r.cap, maxfd |-> r.maxfd,
                  nofds |-> r.nofds,
                  chan |-> r.chan,
                  reads |-> r.reads + (IF Len(buf) > r.total_read THEN 1 ELSE 0),
                  open |-> IF ok THEN Entries(tab, fds) ELSE <<>>,
                  msg |-> IF sent = <<>> THEN <<>> ELSE <<Head(sent)>>]>>
    /\ sent' = IF ok /\ sent # <<>> THEN Tail(sent) ELSE sent
    \* the descriptors a successful call returns are the caller's from here on
    /\ rTab' = IF ok THEN CloseFds(tab, fds) ELSE tab

\* proxy_socket_recvmsg / render_socket_recvmsg on the result k of recvmsg(2)
socket_recvmsg_leaky(role, k) ==
    IF k.ret < 0
    THEN IF IsTransient(k.errno)
         THEN [st |-> "continue", why |-> "", tab |-> k.tab]
         ELSE [st |-> "false", why |-> k.errno, tab |-> k.tab]
    ELSE IF k.ret = 0
    THEN [st |-> "false", why |-> "eof", tab |-> k.tab]
    ELSE IF k.msg.flags \cap {"MSG_TRUNC", "MSG_CTRUNC"} # {}
    THEN [st |-> "false", why |-> "truncated", tab |-> k.tab]
    ELSE IF ~Stream /\ role = "proxy" /\ k.msg.iov_len # k.ret
    THEN [st |-> "false", why |-> "incomplete", tab |-> k.tab]
    ELSE [st |-> "true", why |-> "",
          tab |-> IF Stream THEN set_cloexec(k.tab, get_received_fds(k.msg))
                  ELSE k.tab]
socket_recvmsg_noflags(role, k) ==
    IF k.ret < 0
    THEN IF IsTransient(k.errno)
         THEN [st |-> "continue", why |-> "", tab |-> k.tab]
         ELSE [st |-> "false", why |-> k.errno, tab |-> k.tab]
    ELSE IF k.ret = 0
    THEN [st |-> "false", why |-> "eof", tab |-> k.tab]
    ELSE IF ~Stream /\ role = "proxy" /\ k.msg.iov_len # k.ret
    THEN [st |-> "false", why |-> "incomplete",
          tab |-> CloseFds(k.tab, get_received_fds(k.msg))]
    ELSE [st |-> "true", why |-> "",
          tab |-> IF Stream THEN set_cloexec(k.tab, get_received_fds(k.msg))
                  ELSE k.tab]
socket_recvmsg_lax(role, k) ==
    IF k.ret < 0
    THEN IF IsTransient(k.errno)
         THEN [st |-> "continue", why |-> "", tab |-> k.tab]
         ELSE [st |-> "false", why |-> k.errno, tab |-> k.tab]
    ELSE IF k.ret = 0
    THEN [st |-> "false", why |-> "eof", tab |-> k.tab]
    ELSE IF k.msg.flags \cap {"MSG_TRUNC", "MSG_CTRUNC"} # {}
    THEN [st |-> "false", why |-> "truncated",
          tab |-> CloseFds(k.tab, get_received_fds(k.msg))]
    ELSE [st |-> "true", why |-> "",
          tab |-> IF Stream THEN set_cloexec(k.tab, get_received_fds(k.msg))
                  ELSE k.tab]
socket_recvmsg(role, k) ==
    IF k.ret < 0
    THEN IF IsTransient(k.errno)
         THEN [st |-> "continue", why |-> "", tab |-> k.tab]
         ELSE [st |-> "false", why |-> k.errno, tab |-> k.tab]
    ELSE IF k.ret = 0
    THEN [st |-> "false", why |-> "eof", tab |-> k.tab]
    ELSE IF k.msg.flags \cap {"MSG_TRUNC", "MSG_CTRUNC"} # {}
    THEN [st |-> "false", why |-> "truncated",
          tab |-> CloseFds(k.tab, get_received_fds(k.msg))]
    ELSE IF ~Stream /\ role = "proxy" /\ k.msg.iov_len # k.ret
    THEN [st |-> "false", why |-> "incomplete",
          tab |-> CloseFds(k.tab, get_received_fds(k.msg))]
    ELSE [st |-> "true", why |-> "",
          tab |-> IF Stream THEN set_cloexec(k.tab, get_received_fds(k.msg))
                  ELSE k.tab]

\* the receive calls of the public interface: without descriptors
\* (fds NULL, max_fd_count 0, out_fd_count NULL) or with max_fd_count >= 1
\* the call, up to its first system call; the native build asserts
\* fds && max_fd_count <= MAX_FD_COUNT under if (max_fd_count)
socket_receive_internal_on(size, max_fd_count, nofds) ==
    /\ r.pc = "idle"
    /\ r' = [IdleR EXCEPT
               !.fd = r.fd,
               !.nofds = nofds,
               !.pc = IF ~AssertDataSize(size)
                         \/ (~Stream /\ ~AssertFdCount(rrole, max_fd_count))
                         \/ (~Stream /\ max_fd_count # 0 /\ nofds)
                      THEN "fault"
                      ELSE IF Stream THEN "read_all" ELSE "recvmsg",
               !.cap = size,
               !.maxfd = max_fd_count,
               !.chan = IF s.pc # "closed" THEN "open"
                        ELSE IF wire = <<>> THEN "drained" ELSE "queued",
               !.msg = IF Stream THEN NoMsg
                       ELSE MsgHdr(size, max_fd_count # 0,
                                   IF max_fd_count # 0
                                   THEN CMSG_SPACE(4 * max_fd_count) ELSE 0)]
    /\ last' = <<>>
    /\ transient' = FALSE
    /\ conn' = <<>>
    /\ UNCHANGED <<wide, conc, proc, build, signals, rrole, wire, s, sent, sOpen, rTab>>

socket_receive_internal(size, max_fd_count) ==
    socket_receive_internal_on(size, max_fd_count, FALSE)

\* proxy_socket_receive_reply_with_fds / render_socket_receive_request_with_fds
\* called with fds = NULL and a count to report; the descriptors such a call
\* receives stay in the table of the process, and the model follows the calls
\* of a process that holds none of these yet
socket_receive_nofds(size, max_fd_count) ==
    /\ rTab = {}
    /\ socket_receive_internal_on(size, max_fd_count, TRUE)

\* the header check: the server role receives up to max_size bytes, the client
\* role exactly size bytes
HeaderRejectedNone(role, hsize, size) == FALSE
HeaderRejectedOffByOne(role, hsize, size) ==
    IF role = "render" THEN hsize >= size ELSE hsize # size
HeaderRejected(role, hsize, size) ==
    IF role = "render" THEN hsize > size ELSE hsize # size

\* the size a call that fails the header check has stored for its caller:
\* *out_size = hdr.size comes after the check and the return
RejectedSizeStored(hsize) == hsize
RejectedSize(hsize) == 0

\* what read(2) of the header can return
KReadResults ==
    {Failed(e) : e \in Errnos}
    \cup (IF wire # <<>>
          THEN {Returned(n) : n \in KHdrParts(8 - Len(r.hdr), KRun(wire, 1))}
          ELSE IF s.pc = "closed" THEN {Returned(0)} ELSE {})

\* one iteration of the loop of proxy_socket_read_all / render_socket_read_all,
\* and after the last one the code up to the first recvmsg
socket_read_all ==
    /\ r.pc = "read_all"
    /\ \E res \in KReadResults :
         LET n == res.ret IN
         IF n < 0
         THEN IF IsTransient(res.errno)
              THEN /\ transient' = TRUE                        \* continue
                   /\ last' = <<>>
                   /\ UNCHANGED <<wire, r, sent, rTab>>
              ELSE /\ RecvReturn(FALSE, res.errno, 0, <<>>, 0, <<>>, rTab)
                   /\ transient' = FALSE
                   /\ UNCHANGED wire
         ELSE IF n = 0
         THEN /\ RecvReturn(FALSE, "eof", 0, <<>>, 0, <<>>, rTab)   \* EOF
              /\ transient' = FALSE
              /\ UNCHANGED wire
         ELSE LET hdr == r.hdr \o [i \in 1..n |-> wire[i].b]
                  hs  == hdr_size(hdr)
                  hf  == hdr_fd_count(hdr)
              IN
              /\ wire' = SubSeq(wire, n + 1, Len(wire))
              /\ transient' = FALSE
              /\ IF Len(hdr) < 8
                 THEN /\ r' = [r EXCEPT !.hdr = hdr]
                      /\ last' = <<>>
                      /\ UNCHANGED <<sent, rTab>>
                 ELSE IF HeaderRejected(rrole, hs, r.cap)
                 THEN RecvReturn(FALSE, "size", RejectedSize(hs), <<>>, 0, <<>>, rTab)
                 ELSE IF hs = 0                   \* while (total_read < hdr.size)
                 THEN RecvReturn(TRUE, "", 0, <<>>, 0, <<>>, rTab)
                 ELSE /\ r' = [r EXCEPT
                                 !.pc = "recvmsg",
                                 !.hdr = hdr,
                                 !.hsize = hs,
                                 !.msg = IF hf > 0 /\ r.maxfd > 0
                                         THEN MsgHdr(hs, TRUE,
                                                CMSG_SPACE(4 * Min(hf, r.maxfd)))
                                         ELSE MsgHdr(hs, FALSE, 0)]
                      /\ last' = <<>>
                      /\ UNCHANGED <<sent, rTab>>
    /\ conn' = <<>>
    /\ UNCHANGED <<wide, conc, proc, build, signals, rrole, s, sOpen>>

\* what recvmsg(2) can return, as the result record of KDeliver
KRecvmsgResults ==
    {KFail(r.msg, rTab, e) : e \in Errnos}
    \cup
    (IF wire = <<>>
     THEN IF s.pc = "closed" THEN {KEof(r.msg, rTab)} ELSE {}
     ELSE IF Stream
     THEN {KDeliver(r.msg, rTab, [i \in 1..n |-> wire[i].b], n, wire[1].fds,
                    MSG_CMSG_CLOEXEC, f)
             : n \in 1..Min(r.msg.iov_len, KRun(wire, 1)), f \in KFlagsDropped}
     ELSE {KDeliver(r.msg, rTab,
                    SubSeq(wire[1].data, 1, Min(r.msg.iov_len, Len(wire[1].data))),
                    Len(wire[1].data), wire[1].fds, MSG_CMSG_CLOEXEC, f)
             : f \in KFlagsDropped})

\* the wire after a receive that returned n bytes
KConsume(w, n) == IF Stream THEN SubSeq(w, n + 1, Len(w)) ELSE Tail(w)

\* if (received_fd_count > max_fd_count) received_fd_count = max_fd_count
Clamp(count, max_fd_count) == IF count > max_fd_count THEN max_fd_count ELSE count

\* if (fds) memcpy(fds, received_fds, sizeof(*fds) * received_fd_count)
StoredFds(nofds, received) == IF nofds THEN <<>> ELSE received

\* if (!fds && out_fd_count) *out_fd_count = 0, after the loop
FinalFdCountKept(nofds, count) == count
FinalFdCount(nofds, count) == IF nofds THEN 0 ELSE count

\* the msghdr of the next recvmsg of the payload loop: the rest of the buffer,
\* and msg.msg_control = NULL, msg.msg_controllen = 0 after the first call
NextChunkMsgMore(m, left) == MsgHdr(left + 1, FALSE, 0)
NextChunkMsgKeep(m, left) == MsgHdr(left, m.control, m.controllen)
NextChunkMsg(m, left) == MsgHdr(left, FALSE, 0)

\* one recvmsg of the receive call and the code after it, up to the next
\* recvmsg or the return
socket_recvmsg_step ==
    /\ r.pc = "recvmsg"
    /\ \E k \in KRecvmsgResults :
         LET res == socket_recvmsg(rrole, k)
             got == get_received_fds(k.msg)
         IN
         IF res.st = "continue"
         THEN /\ transient' = TRUE
              /\ last' = <<>>
              /\ UNCHANGED <<wire, r, sent, rTab>>
         ELSE
         /\ transient' = FALSE
         /\ wire' = IF k.ret <= 0 THEN wire ELSE KConsume(wire, k.ret)
         /\ IF res.st = "false"
            THEN RecvReturn(FALSE, res.why, 0, r.buf, r.out_fd_count, r.fds, res.tab)
            ELSE IF ~Stream
            THEN \* SOCK_SEQPACKET preserves message boundaries
                 IF r.maxfd # 0
                 THEN IF Len(got) <= r.maxfd     \* assert(received_fd_count <= max)
                      THEN RecvReturn(TRUE, "", k.ret, k.data, Len(got), got, res.tab)
                      ELSE RecvReturn(FALSE, "assert", 0, <<>>, 0, <<>>, res.tab)
                 ELSE RecvReturn(TRUE, "", k.ret, k.data, 0, <<>>, res.tab)
            ELSE \* SOCK_STREAM: read exactly the specified size
                 LET total == r.total_read + k.ret
                     buf   == r.buf \o k.data
                     count == Clamp(Len(got), r.maxfd)
                     nfd   == IF r.msg.control THEN count ELSE r.out_fd_count
                     fds   == IF r.msg.control
                              THEN StoredFds(r.nofds, SubSeq(got, 1, count))
                              ELSE r.fds
                 IN
                 IF total < r.hsize
                 THEN /\ r' = [r EXCEPT
                                 !.total_read = total,
                                 !.reads = @ + 1,
                                 !.buf = buf,
                                 !.out_fd_count = nfd,
                                 !.fds = fds,
                                 !.msg = NextChunkMsg(r.msg, r.hsize - total)]
                      /\ rTab' = res.tab
                      /\ last' = <<>>
                      /\ UNCHANGED <<sent>>
                 ELSE RecvReturn(TRUE, "", r.hsize, buf,
                                 FinalFdCount(r.nofds, nfd), fds, res.tab)
    /\ conn' = <<>>
    /\ UNCHANGED <<wide, conc, proc, build, signals, rrole, s, sOpen>>

\* proxy_socket_fini / render_socket_fini of the receiving endpoint; the kernel
\* drops what is still in flight to it
receiver_fini ==
    /\ r.pc \in {"idle", "failed"}
    /\ r' = socket_fini(r)
    /\ wire' = <<>>
    /\ transient' = FALSE
    /\ conn' = <<>>
    /\ last' = <<>>
    /\ UNCHANGED <<wide, conc, proc, build, signals, rrole, s, sent, sOpen, rTab>>


\* the receive calls for a payload of fixed layout, on the result res of the
\* internal call made with fds NULL and max_fd_count 0:
\* render_socket_receive_data compares the size received with the size asked
\* for, proxy_socket_receive_reply returns what the internal call returns
render_socket_receive_data_unchecked(res) == res.ok
render_socket_receive_data(res) ==
    IF ~res.ok THEN FALSE
    ELSE IF res.cap # res.size THEN FALSE
    ELSE TRUE

proxy_socket_receive_reply(res) == res.ok

receive_exact(role, res) ==
    IF role = "render" THEN render_socket_receive_data(res)
    ELSE proxy_socket_receive_reply(res)


\* ---- proxy_socket_is_connected --------------------------------------------
\* the proxy endpoint is the sender of requests and the receiver of replies
ProxyIdle == IF rrole = "proxy" THEN r.pc \in {"idle", "failed"}
             ELSE s.pc \in {"idle", "failed"}
PeerQuiet == IF rrole = "proxy" THEN s.pc \in {"idle", "failed", "closed"}
             ELSE r.pc \in {"idle", "failed", "fault", "closed"}
PeerClosed == IF rrole = "proxy" THEN s.pc = "closed" ELSE r.pc = "closed"

\* the conditions pending on the proxy's descriptor: data to read, and what
\* the close of the peer leaves (a hangup, with or without a socket error)
KPollPending ==
    LET in == IF rrole = "proxy" /\ wire # <<>> THEN {"POLLIN"} ELSE {}
    IN  IF PeerClosed
        THEN {in \cup {"POLLHUP"}, in \cup {"POLLHUP", "POLLERR"}}
        ELSE {in}

\* struct pollfd poll_fd = { .fd = socket->fd }: no events are requested
PollEvents == {}
\* the timeout argument of poll
PollTimeout == 0

\* poll(&poll_fd, 1, timeout): an error, or the number of descriptors with
\* something to report, the conditions requested and the ones always
\* reported; with nothing to report it returns 0 at once only when the
\* timeout is zero
KPollResults ==
    LET always == {"POLLERR", "POLLHUP", "POLLNVAL"}
        revents(pend) == pend \cap (PollEvents \cup always)
        ready == {[ret |-> IF revents(pend) = {} THEN 0 ELSE 1, errno |-> "",
                   revents |-> revents(pend), pending |-> pend] :
                    pend \in KPollPending}
    IN  {[ret |-> -1, errno |-> e, revents |-> {}, pending |-> pend] :
            e \in Errnos \cup {"ENOMEM"}, pend \in KPollPending}
        \cup {k \in ready : k.ret = 0 => PollTimeout = 0}

\* revents & (POLLERR | POLLHUP | POLLNVAL)
DisconnectedErrOnly(revents) == revents \cap {"POLLERR", "POLLNVAL"} # {}
Disconnected(revents) == revents \cap {"POLLERR", "POLLHUP", "POLLNVAL"} # {}

\* one pass of the loop on the result p of poll: return true, return false, or
\* poll again
is_connected_poll_noretry(p) ==
    IF p.ret = 0 THEN "true"
    ELSE IF p.ret < 0 THEN "false"
    ELSE IF Disconnected(p.revents) THEN "false" ELSE "true"
is_connected_poll(p) ==
    IF p.ret = 0 THEN "true"
    ELSE IF p.ret < 0
    THEN IF IsTransient(p.errno) THEN "continue" ELSE "false"
    ELSE IF Disconnected(p.revents) THEN "false" ELSE "true"

proxy_socket_is_connected ==
    /\ ProxyIdle
    /\ PeerQuiet
    /\ \E p \in KPollResults :
         IF is_connected_poll(p) = "continue"
         THEN /\ transient' = TRUE
              /\ UNCHANGED conn
         ELSE /\ conn' = <<[ret |-> is_connected_poll(p) = "true",
                            hup |-> PeerClosed, errno |-> p.errno,
                            pending |-> p.pending]>>
              /\ transient' = FALSE
    /\ last' = <<>>
    /\ UNCHANGED <<wide, conc, proc, build, signals, rrole, wire, s, r, sent, sOpen, rTab>>

\* ---- proxy_socket_pair, render_socket_pair, *_is_seqpacket ----------------
\* the descriptors a process can be started with
Inherited == {{}} \cup {{[fd |-> 3, type |-> ty, cloexec |-> FALSE]} :
                           ty \in {"SOCK_STREAM", "SOCK_SEQPACKET", "SOCK_DGRAM", "file"}}

\* socketpair(AF_UNIX, type, 0, out_fds): the two lowest free descriptors, or
\* an error; SOCK_CLOEXEC in the type marks both
KSocketpair(tab, type, sock_cloexec) ==
    LET fds == NewFds(TabFds(tab), 2)
    IN  {[ret |-> -1, errno |-> "EMFILE", fds |-> <<>>, tab |-> tab],
         [ret |-> 0, errno |-> "", fds |-> fds,
          tab |-> tab \cup {[fd |-> fds[i], type |-> type, cloexec |-> sock_cloexec] :
                               i \in 1..2}]}

PairReturn(by, k, tab) ==
    /\ proc' = [tab |-> tab,
                out |-> <<[by |-> by, ok |-> k.ret = 0, fds |-> k.fds]>>,
                probe |-> <<>>]
    /\ UNCHANGED <<wide, conc, build, signals, rrole, wire, s, r, sent, last, sOpen, rTab,
                   transient, conn>>

proxy_socket_pair ==
    /\ Cardinality(proc.tab) + 2 <= MaxOpen
    /\ IF Stream
       THEN \E k \in KSocketpair(proc.tab, "SOCK_STREAM", FALSE) :
              IF k.ret # 0 THEN PairReturn("proxy", k, k.tab)
              ELSE PairReturn("proxy", k, set_cloexec(k.tab, <<k.fds[1]>>))
       ELSE \E k \in KSocketpair(proc.tab, "SOCK_SEQPACKET", FALSE) :
              PairReturn("proxy", k, k.tab)

render_socket_pair ==
    /\ Cardinality(proc.tab) + 2 <= MaxOpen
    /\ IF Stream
       THEN \E k \in KSocketpair(proc.tab, "SOCK_STREAM", FALSE) :
              IF k.ret # 0 THEN PairReturn("render", k, k.tab)
              ELSE PairReturn("render", k,
                              set_cloexec(set_cloexec(k.tab, <<k.fds[1]>>),
                                          <<k.fds[2]>>))
       ELSE \E k \in KSocketpair(proc.tab, "SOCK_SEQPACKET", TRUE) :
              PairReturn("render", k, k.tab)

\* getsockopt(fd, SOL_SOCKET, SO_TYPE, &type, &len): the type of the socket;
\* EBADF for a descriptor that is not open, ENOTSOCK for one that is no socket
KGetsockopt(tab, fd) ==
    IF fd \notin TabFds(tab) THEN [ret |-> -1, errno |-> "EBADF", type |-> ""]
    ELSE LET e == CHOOSE x \in tab : x.fd = fd
         IN  IF e.type = "file" THEN [ret |-> -1, errno |-> "ENOTSOCK", type |-> ""]
             ELSE [ret |-> 0, errno |-> "", type |-> e.type]

\* the two functions have the same body, but for the log
socket_is_seqpacket_strict(k) ==
    IF k.ret # 0 THEN FALSE
    ELSE k.type = "SOCK_SEQPACKET"
socket_is_seqpacket(k) ==
    IF k.ret # 0 THEN FALSE
    ELSE IF Stream THEN k.type = "SOCK_STREAM" \/ k.type = "SOCK_SEQPACKET"
    ELSE k.type = "SOCK_SEQPACKET"

ProbeReturn(by, fd, k) ==
    /\ proc' = [proc EXCEPT !.out = <<>>,
                            !.probe = <<[by |-> by, fd |-> fd, failed |-> k.ret # 0,
                                         type |-> k.type,
                                         ret |-> socket_is_seqpacket(k)]>>]
    /\ UNCHANGED <<wide, conc, build, signals, rrole, wire, s, r, sent, last, sOpen, rTab,
                   transient, conn>>

proxy_socket_is_seqpacket(fd) == ProbeReturn("proxy", fd, KGetsockopt(proc.tab, fd))

render_socket_is_seqpacket(fd) == ProbeReturn("render", fd, KGetsockopt(proc.tab, fd))

\* the process closes one of its descriptors
proc_close(fd) ==
    /\ fd \in TabFds(proc.tab)
    /\ proc' = [tab |-> {e \in proc.tab : e.fd # fd}, out |-> <<>>, probe |-> <<>>]
    /\ UNCHANGED <<wide, conc, build, signals, rrole, wire, s, r, sent, last, sOpen, rTab,
                   transient, conn>>

\* ---- sends of several callers on one stream endpoint ----------------------
\* Caller t runs proxy_socket_send_request_internal /
\* render_socket_send_reply_internal with its own locals on the descriptor
\* of the endpoint all callers share: the code takes no lock.  The socket
\* buffer holds ConcCap bytes and nothing is received.
ConcRoom == ConcCap - Len(wire)

\* the payload of caller t is tagged with t
conc_send_internal(t, n, fds) ==
    /\ Stream
    /\ conc.thr[t].pc = "idle"
    /\ \A u \in Callers : conc.thr[u].pc # "failed"
    /\ AssertDataSize(n)
    /\ conc' = [thr |-> [conc.thr EXCEPT ![t] =
                           [IdleS EXCEPT
                              !.pc = "write_all",
                              !.tag = t,
                              !.size = n,
                              !.data = Payload(t, n),
                              !.fds = fds,
                              !.remaining = stream_msg_header(n, Len(fds))]],
                overlap |-> conc.overlap
                              \/ \E u \in Callers : InCall(conc.thr[u])]
    /\ UNCHANGED <<wide, proc, build, signals, rrole, wire, s, r, sent, last, sOpen, rTab,
                   transient, conn>>

\* one iteration of the loop of write_all in caller t
conc_write_all(t) ==
    LET c == conc.thr[t] IN
    /\ c.pc = "write_all"
    /\ \E res \in {Failed(e) : e \in Errnos}
                    \cup {Returned(n) : n \in KHdrParts(Len(c.remaining), ConcRoom)} :
         LET n == res.ret IN
         IF n < 0
         THEN /\ conc' = [conc EXCEPT !.thr[t] = [IdleS EXCEPT !.pc = "failed"]]
              /\ UNCHANGED wire
         ELSE /\ wire' = KStreamAppend(wire, SubSeq(c.remaining, 1, n), <<>>)
              /\ conc' = [conc EXCEPT
                            !.thr[t].remaining = SubSeq(@, n + 1, Len(@)),
                            !.thr[t].pc = IF n < Len(c.remaining) THEN @
                                          ELSE "sendmsg"]
    /\ UNCHANGED <<wide, proc, build, signals, rrole, s, r, sent, last, sOpen, rTab,
                   transient, conn>>

\* one iteration of the loop of the stream sendmsg in caller t
conc_sendmsg(t) ==
    LET c == conc.thr[t]
        msg == SendMsgHdr(c.size, Len(c.fds), c.fds)
        control == msg.control
    IN
    /\ c.pc = "sendmsg"
    /\ \E res \in {Failed(e) : e \in Errnos}
                    \cup {Returned(n) : n \in 1..Min(c.size - c.total_sent, ConcRoom)} :
         LET n == res.ret IN
         IF n < 0
         THEN /\ conc' = [conc EXCEPT !.thr[t] = [IdleS EXCEPT !.pc = "failed"]]
              /\ UNCHANGED wire
         ELSE /\ wire' = KStreamAppend(wire,
                           SubSeq(c.data, c.total_sent + 1, c.total_sent + n),
                           IF AttachControl(c.fds_sent, control)
                           THEN KSendFiles(msg) ELSE <<>>)
              /\ conc' = IF c.total_sent + n < c.size
                         THEN [conc EXCEPT !.thr[t].total_sent = @ + n,
                                           !.thr[t].fds_sent = control]
                         ELSE [conc EXCEPT !.thr[t] = IdleS]
    /\ UNCHANGED <<wide, proc, build, signals, rrole, s, r, sent, last, sOpen, rTab,
                   transient, conn>>

\* ---- the system -----------------------------------------------------------
\* the payload sizes sent; the buffer sizes received into: the smallest and the
\* largest; the descriptor limits of a receive: none, one, and the most sent
Sizes == 1..MaxSize
Caps == {1, MaxSize}
FdLimits == {0, 1, MaxFdCount}

\* the inputs of callers that do not keep to the preconditions: a size of 0,
\* and one descriptor more than the transport allows
SizesAny == {0, 1}
SendSizesAny == {0, 1, MaxSize}
FdLimitsAny == {0, 1, RENDER_SOCKET_MAX_FD_COUNT + 1}
FdArraysAny == {[i \in 1..k |-> i] : k \in FdLimitsAny}

\* sending, receiving and closing
Next ==
    \/ \E n \in Sizes, fds \in FdArrays : socket_send_internal(n, fds)
    \/ socket_write_all
    \/ socket_sendmsg
    \/ sender_fini
    \/ \E n \in Caps, m \in FdLimits : socket_receive_internal(n, m)
    \/ socket_read_all
    \/ socket_recvmsg_step
    \/ receiver_fini

Spec == Init /\ [][Next]_vars

\* the same with receive calls that pass no descriptor array
NextArr == Next \/ \E n \in Caps, m \in FdLimits : socket_receive_nofds(n, m)
SpecArr == Init /\ [][NextArr]_vars

\* the same with the sending caller closing its own descriptors
NextFds == Next \/ sender_close_fds
SpecFds == Init /\ [][NextFds]_vars

\* the calls of callers that do not keep to the preconditions, and a kernel
\* that does not keep to the message boundaries
NextFault ==
    \/ \E n \in SendSizesAny, fds \in FdArraysAny : socket_send_internal(n, fds)
    \/ socket_write_all
    \/ socket_sendmsg
    \/ socket_sendmsg_short
    \/ sender_fini
    \/ \E n \in SizesAny, m \in FdLimitsAny : socket_receive_internal(n, m)
    \/ socket_read_all
    \/ socket_recvmsg_step
    \/ receiver_fini
    \/ proxy_socket_is_connected

\* the descriptors the endpoints are initialized from: of callers that keep
\* to the precondition of init and of callers that do not
InitFdsAny == {-1, 0, 5}
InitFault ==
    /\ build \in {"linux", "darwin"}
    /\ signals = FALSE
    /\ rrole \in {"render", "proxy"}
    /\ wire = <<>>
    /\ \E fd \in InitFdsAny : s = socket_init(IdleS, fd)
    /\ \E fd \in InitFdsAny \ {0} : r = socket_init(IdleR, fd)
    /\ sent = <<>>
    /\ last = <<>>
    /\ sOpen = TRUE
    /\ rTab = {}
    /\ transient = FALSE
    /\ conn = <<>>
    /\ proc = IdleProc
    /\ conc = IdleConc
    /\ wide = <<>>

SpecFault == InitFault /\ [][NextFault]_vars

\* the same with the liveness probe of the proxy endpoint, under signals:
\* system calls are interrupted and would block
NextSig == Next \/ proxy_socket_is_connected
SpecSig == InitSig /\ [][NextSig]_vars

\* a process that creates pairs, probes descriptors and closes them
InitProc ==
    /\ build \in {"linux", "darwin"}
    /\ signals = FALSE
    /\ rrole = "render"
    /\ wire = <<>>
    /\ s = IdleS
    /\ r = IdleR
    /\ sent = <<>>
    /\ last = <<>>
    /\ sOpen = TRUE
    /\ rTab = {}
    /\ transient = FALSE
    /\ conn = <<>>
    /\ \E tab \in Inherited : proc = [IdleProc EXCEPT !.tab = tab]
    /\ conc = IdleConc
    /\ wide = <<>>

ProbeFds == 3..(3 + MaxOpen)

NextProc ==
    \/ proxy_socket_pair
    \/ render_socket_pair
    \/ \E fd \in ProbeFds : proxy_socket_is_seqpacket(fd)
    \/ \E fd \in ProbeFds : render_socket_is_seqpacket(fd)
    \/ \E fd \in ProbeFds : proc_close(fd)

SpecProc == InitProc /\ [][NextProc]_vars

\* the two processes of a pair, each taking the steps of its calls, on a
\* kernel whose write and sendmsg can report 0 bytes, proxies sending
\* requests.  Each process runs: when a step other than a system call failing
\* with a hard error stays possible for it, it takes a step (weak fairness);
\* a call that can only block or fail with EIO may block forever, and nothing
\* else is assumed of what the kernel makes a call return.
SenderLive ==
    \/ \E n \in Caps, fds \in FdArrays : socket_send_internal(n, fds)
    \/ socket_write_all_zero
    \/ socket_sendmsg_zero
    \/ sender_fini
ReceiverLive ==
    \/ \E n \in Caps, m \in FdLimits : socket_receive_internal(n, m)
    \/ socket_read_all
    \/ socket_recvmsg_step
    \/ receiver_fini
NextLive == SenderLive \/ ReceiverLive
SenderRuns ==
    SenderLive /\ ~(s'.pc = "failed" /\ sent'[Len(sent')].res = "EIO")
ReceiverRuns ==
    ReceiverLive /\ ~(r'.pc = "failed" /\ last'[1].why = "EIO")
InitLive == Init /\ rrole = "render"
SpecLive ==
    InitLive /\ [][NextLive]_vars /\ WF_vars(SenderRuns) /\ WF_vars(ReceiverRuns)

\* ---- a strict request/reply exchange: the client sends a request and
\* receives the reply, the server receives the request and sends the reply.
\* The two directions of the socket are never in use at once, so the one
\* channel of the model carries the request while rrole = "render" and the
\* reply while rrole = "proxy"; s is the endpoint of the side that sends.
\* Neither side closes, system calls fail with transient errors only, and no
\* side starts its next call before the one message of the turn has arrived.
xchg_send(n, fds) ==
    /\ sent = <<>> /\ last = <<>>
    /\ socket_send_internal(n, fds)

xchg_receive(size, max_fd_count) ==
    /\ last = <<>>
    /\ socket_receive_internal(size, max_fd_count)

\* the receive has returned the message: the side that received it answers
xchg_turn ==
    /\ s.pc = "idle" /\ r.pc = "idle"
    /\ last # <<>> /\ last[1].ok
    /\ sent = <<>> /\ wire = <<>>
    /\ rrole' = Other(rrole)
    /\ last' = <<>>
    /\ transient' = FALSE
    /\ conn' = <<>>
    /\ UNCHANGED <<wide, conc, proc, build, signals, wire, s, r, sent, sOpen, rTab>>

XchgSender ==
    \/ \E n \in Sizes, fds \in FdArrays : xchg_send(n, fds)
    \/ socket_write_all
    \/ socket_sendmsg
XchgReceiver ==
    \/ \E n \in Caps, m \in FdLimits : xchg_receive(n, m)
    \/ socket_read_all
    \/ socket_recvmsg_step
    \/ xchg_turn
NextXchg == XchgSender \/ XchgReceiver

InitXchg == InitSig /\ rrole = "render"

\* both processes run: a step that stays possible for a process is taken
SpecXchg ==
    InitXchg /\ [][NextXchg]_vars /\ WF_vars(XchgSender) /\ WF_vars(XchgReceiver)

\* ---- the header of a stream send for a size of the width of size_t
\* a size_t of 64 bits, as its high and its low 32 bits
SizeT(hi, lo) == [hi |-> hi, lo |-> lo]

\* (uint32_t)size: the low 32 bits
U32OfSizeT(size) == size.lo

\* the sizes and descriptor counts of the sends
WideSizes == {SizeT(hi, lo) : hi \in 0..1, lo \in 0..MaxLow}

\* proxy_socket_send_request_internal / render_socket_send_reply_internal of
\* the __APPLE__ build up to the header they hand to write_all
send_header(size, fd_count) ==
    /\ size.hi # 0 \/ AssertDataSize(size.lo)               \* assert(data && size)
    /\ wide' = <<[size |-> size, fd_count |-> fd_count,
                  hdr |-> stream_msg_header(U32OfSizeT(size), fd_count)]>>
    /\ UNCHANGED <<conc, proc, build, signals, rrole, wire, s, r, sent, last, sOpen,
                   rTab, transient, conn>>

InitWide ==
    /\ build = "darwin"
    /\ signals = FALSE
    /\ rrole = "render"
    /\ wire = <<>>
    /\ s = IdleS
    /\ r = IdleR
    /\ sent = <<>>
    /\ last = <<>>
    /\ sOpen = TRUE
    /\ rTab = {}
    /\ transient = FALSE
    /\ conn = <<>>
    /\ proc = IdleProc
    /\ conc = IdleConc
    /\ wide = <<>>

NextWide == \E size \in WideSizes, fd_count \in 0..MaxFdCount : send_header(size, fd_count)

SpecWide == InitWide /\ [][NextWide]_vars

\* callers that do not serialize their sends on a stream endpoint: proxies
\* sending requests of the smallest and of the largest size
InitConc ==
    /\ build = "darwin"
    /\ signals = FALSE
    /\ rrole = "render"
    /\ wire = <<>>
    /\ s = IdleS
    /\ r = IdleR
    /\ sent = <<>>
    /\ last = <<>>
    /\ sOpen = TRUE
    /\ rTab = {}
    /\ transient = FALSE
    /\ conn = <<>>
    /\ proc = IdleProc
    /\ conc = IdleConc
    /\ wide = <<>>

NextConc ==
    \/ \E t \in Callers, n \in Caps, fds \in FdArrays : conc_send_internal(t, n, fds)
    \/ \E t \in Callers : conc_write_all(t)
    \/ \E t \in Callers : conc_sendmsg(t)

SpecConc == InitConc /\ [][NextConc]_vars

\* ---- properties -----------------------------------------------------------
\* the result of the receive call that has just returned, and the message at
\* the head of the sender's outstanding messages when it returned
HasRes == last # <<>>
HasMsg == last # <<>> /\ last[1].msg # <<>>
Res == last[1]
ResMsg == last[1].msg[1]

\* the payload size the receive call accepts: the server role receives up to
\* its buffer size, the client role exactly the size it asks for
SizeAccepted == IF rrole = "render" THEN Len(ResMsg.data) <= Res.cap
                ELSE Len(ResMsg.data) = Res.cap

\* a receive has returned for a message whose send succeeded, whose payload the
\* receiver accepts and whose descriptors it has asked for, and no call of the
\* receive hit a hard I/O error
Delivered ==
    /\ HasMsg
    /\ ResMsg.res = "ok"
    /\ SizeAccepted
    /\ Len(ResMsg.fds) <= Res.maxfd
    /\ Res.why # "EIO"

\* the descriptors returned are open in the receiver and refer, in order, to
\* the files of the sender's descriptors
SameFiles ==
    /\ Res.nfd = Len(ResMsg.fds)
    /\ Len(Res.fds) = Len(ResMsg.fds)
    /\ Len(Res.open) = Len(ResMsg.fds)
    /\ \A i \in 1..Len(ResMsg.fds) :
         /\ Res.open[i] # <<>>
         /\ Res.open[i][1].file = ResMsg.fds[i]
         /\ \A j \in 1..Len(ResMsg.fds) : i # j => Res.fds[i] # Res.fds[j]

\* C1: a payload of n bytes, 0 < n <= the receiver's buffer size, sent on one
\* endpoint and received on the peer arrives: the receive succeeds with exactly
\* n bytes, the bytes sent in the order sent, under native and stream framing.
C1_RoundTrip ==
    Delivered =>
        /\ Res.ok
        /\ Res.size = Len(ResMsg.data)
        /\ Res.data = ResMsg.data

C1_Witness ==
    /\ HasMsg /\ Res.ok
    /\ Stream /\ rrole = "render"
    /\ Res.size >= 2 /\ Res.size <= Res.cap
    /\ Res.data = ResMsg.data

\* C2: a receive that returns success has placed in the caller's buffer as
\* many payload bytes as the sender declared for the message, never fewer.
C2_ExactLength ==
    (HasRes /\ Res.ok) =>
        /\ HasMsg
        /\ Res.size = Len(ResMsg.data)
        /\ Len(Res.data) = Res.size

C2_Witness ==
    /\ HasMsg /\ Res.ok
    /\ Res.reads >= 2
    /\ Len(Res.data) = Len(ResMsg.data)

\* C3: a message sent with k descriptors and received with room for at least k
\* is received with exactly k descriptors, distinct descriptors of the receiver
\* that refer to the sender's files in the order sent, and they are open
\* whether or not the sender has closed its own.
C3_Descriptors ==
    Delivered => (Res.ok /\ SameFiles)

C3_Witness ==
    /\ HasMsg /\ Res.ok
    /\ Res.nfd >= 2 /\ SameFiles
    /\ ~sOpen

\* C4: the i-th successful receive returns the i-th message sent: each
\* successful receive returns the oldest message not yet received, whole and
\* alone, with the size the sender declared for it.
C4_InOrder ==
    (HasRes /\ Res.ok) =>
        /\ HasMsg
        /\ ResMsg.res = "ok"
        /\ Res.data = ResMsg.data
        /\ Res.size = Len(ResMsg.data)

\* the second message sent has been received while a third one is in flight
C4_Witness ==
    /\ HasMsg /\ Res.ok
    /\ Res.data = Payload(2, Len(Res.data))
    /\ sent # <<>>

\* C5: under stream framing, however the payload is split into partial sends
\* and partial receives, and whatever transient errors happen in between, the
\* receiver gets the whole payload and exactly the descriptors sent.
C5_StreamSplits ==
    (Stream /\ Delivered) =>
        /\ Res.ok
        /\ Res.data = ResMsg.data
        /\ SameFiles

\* a payload sent in two partial sends with two descriptors and received in two
\* partial receives
C5_Witness ==
    /\ Stream /\ HasMsg /\ Res.ok
    /\ ResMsg.parts >= 2 /\ Res.reads >= 2
    /\ Res.nfd >= 2 /\ SameFiles

\* C6: native and stream framing behave the same for the caller: the result of
\* a receive (success or returned failure, payload, size, descriptor count) is
\* determined by the arguments of the send and of the receive, whatever the
\* build.  Descriptors sent to a receive that asked for none are discarded by
\* the kernel, and whether the receive then fails is left to the kernel.
C6_ModesAgree ==
    (HasMsg /\ ResMsg.res = "ok" /\ Res.why # "EIO") =>
        IF SizeAccepted /\ Len(ResMsg.fds) <= Res.maxfd
        THEN /\ Res.ok
             /\ Res.size = Len(ResMsg.data)
             /\ Res.data = ResMsg.data
             /\ Res.nfd = Len(ResMsg.fds)
        ELSE IF SizeAccepted /\ Res.maxfd = 0
        THEN Res.why # "assert" /\ (Res.ok => Res.nfd = 0)
        ELSE ~Res.ok /\ Res.why # "assert"

\* the native build on a receive with room for one descriptor of a message
\* sent with two: the receive neither succeeds nor returns failure
C6_Witness ==
    /\ HasMsg /\ ~Stream
    /\ Res.why = "assert"
    /\ Res.maxfd = 1 /\ Len(ResMsg.fds) = 2

\* C7 as stated: after the peer endpoint is closed the next receive returns
\* failure and the next is_connected returns false.
C7_Original ==
    /\ (HasRes /\ Res.chan # "open") => ~Res.ok
    /\ (conn # <<>> /\ conn[1].hup) => ~conn[1].ret

\* the results the system call pending in the receive can return
PendingRets ==
    IF r.pc = "read_all" THEN {res.ret : res \in KReadResults}
    ELSE IF r.pc = "recvmsg" THEN {k.ret : k \in KRecvmsgResults}
    ELSE {}

\* C7: after the peer endpoint is closed, a receive that begins when nothing
\* the peer sent is still queued returns failure for end of stream: its
\* system call returns 0 instead of blocking, and no assertion fails; a
\* receive that begins while something is still queued succeeds only with a
\* message the peer sent before it closed; is_connected returns false.
C7_PeerClosed ==
    /\ (HasRes /\ Res.chan = "drained") => (~Res.ok /\ Res.why \in {"eof", "EIO"})
    /\ (HasRes /\ Res.chan = "queued" /\ Res.ok) =>
          (HasMsg /\ ResMsg.res = "ok" /\ Res.data = ResMsg.data)
    /\ (r.chan = "drained" /\ r.pc \in {"read_all", "recvmsg"}) => 0 \in PendingRets
    /\ (conn # <<>> /\ conn[1].hup) => ~conn[1].ret

C7_Witness ==
    /\ HasRes /\ Res.chan = "drained"
    /\ ~Res.ok /\ Res.why = "eof"
    /\ s.pc = "closed"

\* a message queued when the peer closed is still received
C7_QueuedDelivered ==
    /\ HasRes /\ Res.chan = "queued" /\ Res.ok

\* no result reported to a caller is a transient error
NoTransientReported ==
    /\ HasRes => Res.why \notin {"EINTR", "EAGAIN"}
    /\ \A m \in Range(sent) : m.res \notin {"EINTR", "EAGAIN"}
    /\ conn # <<>> => conn[1].errno \notin {"EINTR", "EAGAIN"}

\* C8: a read, write, sendmsg, recvmsg or poll that fails with EINTR or EAGAIN
\* is never reported to the caller: the call in progress stays where it is,
\* with its transfer progress, and issues the same system call again, so what
\* follows is what would have followed without the transient failure.
C8_TransientRetried ==
    /\ [][transient' => UNCHANGED <<wire, s, r, sent, sOpen, rTab, conn>>]_vars
    /\ []NoTransientReported

\* a transient failure in the middle of a payload
C8_Witness ==
    /\ transient
    /\ r.pc = "recvmsg" /\ r.total_read >= 1
    /\ s.pc = "sendmsg" /\ s.total_sent >= 1

C10_NoLeakOnFailure ==
    (HasRes /\ ~Res.ok /\ Res.why # "assert") => rTab = {}

\* under stream framing the first recvmsg of a payload brought a descriptor
\* and a later recvmsg of the same payload failed
C10_Witness ==
    /\ HasRes /\ ~Res.ok /\ Stream
    /\ Res.why \in {"eof", "EIO"}
    /\ Res.reads >= 1
    /\ rTab # {}

\* C11: when a message carries more descriptors than the receive asked for,
\* the caller is handed at most the number it asked for and the transport
\* closes the rest: after any receive that has returned, no descriptor that
\* arrived during it is still open in the hands of the transport.
C11_ExcessClosed ==
    HasRes =>
        /\ Res.why # "assert"
        /\ Res.nfd <= Res.maxfd
        /\ rTab = {}

\* a message with two descriptors received with room asked for one: both are
\* delivered, none is handed over and none is closed
C11_Witness ==
    /\ HasMsg /\ ~Res.ok
    /\ Len(ResMsg.fds) > Res.maxfd /\ Res.maxfd >= 1
    /\ Cardinality(rTab) = Len(ResMsg.fds)

\* with more descriptors than asked for, the stream build fails the receive and
\* closes what was delivered
C11_StreamOverflowFails ==
    (HasMsg /\ Stream /\ ResMsg.res = "ok" /\ Len(ResMsg.fds) > Res.maxfd
       /\ Res.maxfd >= 1 /\ Res.reads = 0) =>
        (~Res.ok /\ rTab = {})

\* the step puts nothing on the channel and records no message as sent
NothingWritten ==
    /\ \E i \in 1..(Len(wire) + 1) : wire' = SubSeq(wire, i, Len(wire))
    /\ Len(sent') <= Len(sent)

\* C12: a send of a payload of size 0 is rejected by assertion: the call
\* reaches no system call, and neither it nor anything after it on that
\* endpoint writes a header byte or a payload byte.
C12_ZeroLengthRejected ==
    /\ [](s.pc \in {"write_all", "sendmsg"} => s.size >= 1)
    /\ [][(s'.pc = "fault" /\ s'.size = 0) => NothingWritten]_vars

\* a send of size 0 has been rejected while an earlier message is in flight
C12_Witness ==
    /\ s.pc = "fault" /\ s.size = 0
    /\ sent # <<>> /\ sent[Len(sent)].res = "ok"
    /\ wire # <<>>

\* C13: a send with more than 8 descriptors and a receive asking for more than
\* 8 stop at an assertion in every build and role: no send reaches sendmsg
\* with more than 8 descriptors, no receive asking for more than 8 reaches a
\* system call, and no control block of a recvmsg is sized for more than 8.
C13_FdCapEnforced ==
    /\ s.pc = "sendmsg" => Len(s.fds) <= MAX_FD_COUNT(Other(rrole))
    /\ r.pc \in {"read_all", "recvmsg"} => r.maxfd <= MAX_FD_COUNT(rrole)
    /\ r.pc = "recvmsg" =>
          r.msg.controllen <= CMSG_SPACE(4 * MAX_FD_COUNT(rrole))

\* the stream build in a recvmsg whose control block is sized for 9
\* descriptors, in a buffer declared for 8
C13_Witness ==
    /\ Stream /\ r.pc = "recvmsg"
    /\ r.maxfd > MAX_FD_COUNT(rrole)
    /\ r.msg.controllen > CMSG_SPACE(4 * MAX_FD_COUNT(rrole))

\* the sends keep to the limit, and so does the native receive
C13_SendAndNativeReceive ==
    /\ s.pc = "sendmsg" => Len(s.fds) <= MAX_FD_COUNT(Other(rrole))
    /\ (~Stream /\ r.pc \in {"read_all", "recvmsg"}) => r.maxfd <= MAX_FD_COUNT(rrole)

\* C14: the receive of a payload of exact size (render_socket_receive_data,
\* proxy_socket_receive_reply) returns success only if one complete message
\* was received and its size equals the size asked for: the bytes returned
\* are the bytes of that message, all of them; for a message of any other
\* size it returns failure.
C14_ReceiveExact ==
    (HasRes /\ Res.maxfd = 0) =>
        /\ receive_exact(rrole, Res) =>
              /\ HasMsg
              /\ Len(ResMsg.data) = Res.cap
              /\ Res.size = Res.cap
              /\ Res.data = ResMsg.data
        /\ (HasMsg /\ Len(ResMsg.data) # Res.cap) => ~receive_exact(rrole, Res)

\* the server role has received a whole message shorter than the size asked
\* for, and the exact receive fails
C14_Witness ==
    /\ HasMsg /\ Res.maxfd = 0
    /\ rrole = "render"
    /\ Res.ok /\ Res.size < Res.cap
    /\ Res.data = ResMsg.data
    /\ ~receive_exact(rrole, Res)

\* C15: is_connected polls with a zero timeout and returns true exactly when
\* no error, hangup or invalid-descriptor condition is pending on the socket,
\* data to read or nothing at all being pending included; it returns false
\* when one is pending or poll fails with an error other than EINTR and
\* EAGAIN; after EINTR or EAGAIN it polls again, and reports nothing.
C15_IsConnected ==
    /\ PollTimeout = 0
    /\ conn # <<>> =>
          /\ conn[1].errno \notin {"EINTR", "EAGAIN"}
          /\ conn[1].ret <=>
                /\ conn[1].errno = ""
                /\ conn[1].pending \cap {"POLLERR", "POLLHUP", "POLLNVAL"} = {}

\* is_connected returns true with data to read pending, where signals can
\* interrupt the poll
C15_Witness ==
    /\ conn # <<>> /\ conn[1].ret
    /\ conn[1].pending = {"POLLIN"}
    /\ signals

\* is_connected returns false for a pending error
C15_WitnessFalse ==
    /\ conn # <<>> /\ ~conn[1].ret
    /\ "POLLERR" \in conn[1].pending

\* C16: over any sequence of operations the socket descriptor of an endpoint
\* is closed exactly once, by fini: no send, receive or is_connected closes
\* it, and none is performed on the endpoint after it was closed.
C16_ClosedOnce ==
    /\ [](/\ s.closes = (IF s.pc = "closed" THEN 1 ELSE 0)
          /\ r.closes = (IF r.pc = "closed" THEN 1 ELSE 0))
    /\ [][/\ s'.closes # s.closes => sender_fini
          /\ r'.closes # r.closes => receiver_fini
          /\ s.pc = "closed" => s' = s
          /\ r.pc = "closed" => (r' = r /\ rTab' = rTab /\ last' = <<>>)
          /\ (IF rrole = "proxy" THEN r.pc ELSE s.pc) = "closed" =>
                (conn' = <<>> /\ ~proxy_socket_is_connected)]_vars

\* both endpoints closed, the sending one after a message the peer never
\* received
C16_Witness ==
    /\ s.pc = "closed" /\ s.closes = 1
    /\ r.pc = "closed" /\ r.closes = 1
    /\ sent # <<>>

\* the pair function that has just returned success, and the close-on-exec
\* flag of the descriptor at index i (from 1) of its result
PairOk == proc.out # <<>> /\ proc.out[1].ok
PairCloexec(i) == (CHOOSE e \in proc.tab : e.fd = proc.out[1].fds[i]).cloexec

\* C17: after a successful pair creation only the descriptor at index 0 is
\* close-on-exec and the one at index 1 is inheritable, in every build and
\* for both proxy_socket_pair and render_socket_pair.
C17_KeepSideOnly ==
    PairOk => (PairCloexec(1) /\ ~PairCloexec(2))

\* proxy_socket_pair of the native build returns with index 0 inheritable
C17_Witness ==
    /\ PairOk
    /\ proc.out[1].by = "proxy" /\ ~Stream
    /\ ~PairCloexec(1) /\ ~PairCloexec(2)

\* the flags each pair function leaves: proxy_socket_pair of the stream build
\* marks index 0 alone, the native one marks neither; render_socket_pair marks
\* both
C17_FlagsByVariant ==
    PairOk =>
        IF proc.out[1].by = "proxy"
        THEN (PairCloexec(1) <=> Stream) /\ ~PairCloexec(2)
        ELSE PairCloexec(1) /\ PairCloexec(2)

\* the probe that has just returned
Probed == proc.probe # <<>>
Probe == proc.probe[1]

\* C18 as stated: the probe returns true only for a socket whose type keeps
\* message boundaries natively; for a byte-stream socket, and in the build for
\* the platform without the native type, it returns false; it returns false
\* when the query of the socket type fails.
C18_Original ==
    Probed =>
        /\ Probe.ret => (~Probe.failed /\ Probe.type = "SOCK_SEQPACKET")
        /\ Probe.type = "SOCK_STREAM" => ~Probe.ret
        /\ Stream => ~Probe.ret
        /\ Probe.failed => ~Probe.ret

\* C18: the probe returns false when the query of the socket type fails;
\* otherwise, in the native build it returns true exactly for SOCK_SEQPACKET,
\* and in the stream build exactly for SOCK_STREAM and SOCK_SEQPACKET.
C18_Probe ==
    Probed =>
        (Probe.ret <=>
            /\ ~Probe.failed
            /\ \/ Probe.type = "SOCK_SEQPACKET"
               \/ Stream /\ Probe.type = "SOCK_STREAM")

\* the stream build probes a descriptor of a pair the transport has made, a
\* byte-stream socket, and returns true
C18_Witness ==
    /\ Probed /\ Stream
    /\ Probe.type = "SOCK_STREAM" /\ Probe.fd > 3
    /\ Probe.ret

\* a probe whose query fails
C18_WitnessFailed ==
    /\ Probed /\ Probe.failed /\ ~Probe.ret

\* a send, a receive, with a system call pending
InSend(e) == e.pc \in {"write_all", "sendmsg"}
InReceive(e) == e.pc \in {"read_all", "recvmsg"}

\* C19: once a system call of a send or a receive reports an error other than
\* EINTR and EAGAIN, the close of the peer or a framing violation, the call
\* returns failure with no further system call for the message.  Where the
\* system calls fail only with such errors no call is ever repeated: a send or
\* receive that goes on after a system call has moved bytes with it; after a
\* failure the endpoint writes and reads nothing more; and a receive that
\* rejects the header has read no payload.
C19_NoRetryAfterFailure ==
    /\ [](~transient)
    /\ []((HasRes /\ Res.why = "size") => (~Res.ok /\ Res.reads = 0))
    /\ [][/\ (s' # s /\ InSend(s) /\ InSend(s')) =>
                \/ Len(s'.remaining) < Len(s.remaining)
                \/ s'.total_sent > s.total_sent
                \/ s'.pc # s.pc
          /\ (r' # r /\ InReceive(r) /\ InReceive(r')) =>
                \/ Len(r'.hdr) > Len(r.hdr)
                \/ r'.total_read > r.total_read
                \/ r'.pc # r.pc
          /\ s.pc = "failed" => (s'.pc \in {"failed", "closed"} /\ NothingWritten)
          /\ r.pc = "failed" =>
                (r'.pc \in {"failed", "closed"} /\ rTab' = rTab /\ last' = <<>>)]_vars

\* a stream send has failed at a sendmsg after an earlier sendmsg moved part of
\* the payload
C19_Witness ==
    /\ Stream /\ s.pc = "failed"
    /\ sent # <<>>
    /\ sent[Len(sent)].res = "EIO"
    /\ sent[Len(sent)].parts >= 1
    /\ wire # <<>>

\* a receive has failed at the header
C19_WitnessHeader ==
    /\ HasRes /\ Res.why = "size" /\ r.pc = "failed"

\* the two roles decide alike on what the system call pending in the receive
\* can return: the header check on a header that the read completes, and the
\* checks on the result of recvmsg
SameHeaderCheck ==
    r.pc = "read_all" =>
        \A res \in KReadResults :
            (res.ret > 0 /\ Len(r.hdr) + res.ret = 8) =>
                LET hdr == r.hdr \o [i \in 1..res.ret |-> wire[i].b]
                IN  HeaderRejected("render", hdr_size(hdr), r.cap)
                        = HeaderRejected("proxy", hdr_size(hdr), r.cap)
SameRecvmsgCheck ==
    r.pc = "recvmsg" =>
        \A k \in KRecvmsgResults :
            socket_recvmsg("render", k) = socket_recvmsg("proxy", k)

\* C20 as stated: given the same incoming message, buffer size and descriptor
\* maximum in the same wire mode, the receive of the client role and the
\* receive of the server role both succeed or both fail, with the same size
\* and descriptor count.
C20_Original == SameHeaderCheck /\ SameRecvmsgCheck

\* the size of the payload of the message at the head of the channel is the
\* size the receive asks for, or nothing has been sent
ExactSizeIncoming == sent = <<>> \/ Len(Head(sent).data) = r.cap

\* C20: the two roles differ in the size they accept, the client role a
\* payload of exactly the size asked for and the server role any payload up to
\* it; given an incoming message whose payload has the size asked for, the
\* same descriptor maximum and the same wire mode, both succeed or both fail,
\* with the same size and descriptor count.
C20_RolesAgreeOnExactSize ==
    /\ ExactSizeIncoming => (SameHeaderCheck /\ SameRecvmsgCheck)
    /\ (HasMsg /\ Res.ok /\ Len(ResMsg.data) = Res.cap) => Res.size = Res.cap
    /\ (HasMsg /\ Res.ok) =>
          IF rrole = "render" THEN Len(ResMsg.data) <= Res.cap
          ELSE Len(ResMsg.data) = Res.cap

\* a recvmsg is pending for a message of the size asked for, with descriptors,
\* and can return it whole: both roles accept it
C20_Witness ==
    /\ r.pc = "recvmsg" /\ sent # <<>>
    /\ Len(Head(sent).data) = r.cap /\ r.cap = MaxSize
    /\ Head(sent).fds # <<>> /\ r.maxfd >= Len(Head(sent).fds)
    /\ \E k \in KRecvmsgResults :
         /\ k.ret = r.cap
         /\ socket_recvmsg("proxy", k).st = "true"
         /\ socket_recvmsg("render", k).st = "true"

\* the bytes w of a stream are whole frames followed by at most one frame that
\* is still being written: each an 8-byte header, then the payload bytes of
\* one caller, as many as the header says and in order, with as many
\* descriptors on the first of them as the header says and none elsewhere
RECURSIVE WellFramed(_)
WellFramed(w) ==
    IF w = <<>> THEN TRUE
    ELSE LET h   == Min(8, Len(w))
             hdr == [i \in 1..h |-> w[i].b]
         IN
         /\ \A i \in 1..h : w[i].b < 16 /\ w[i].fds = <<>>
         /\ h = 8 =>
              LET n == hdr_size(hdr)
                  m == Min(n, Len(w) - 8)
              IN
              /\ \E t \in Callers : \A j \in 1..m : w[8 + j].b = 16 * t + j
              /\ m >= 1 => Len(w[9].fds) = hdr_fd_count(hdr)
              /\ \A j \in 2..m : w[8 + j].fds = <<>>
              /\ WellFramed(SubSeq(w, 8 + m + 1, Len(w)))

\* C21: the transport takes no lock around a send.  While the sends on a
\* stream endpoint are serialized by the callers, every header on the wire is
\* followed by its own payload; when two callers send at once, the header
\* write and the payload sends of the two messages can interleave.
C21_SerializedFramesIntact ==
    ~conc.overlap => WellFramed(wire)

\* two callers have sent at once, and the header of one message is followed by
\* the header of the other
C21_Witness ==
    /\ conc.overlap
    /\ Len(wire) >= 16
    /\ wire[9].b < 16
    /\ ~WellFramed(wire)

\* two callers have sent at once, and a payload byte of one message is
\* followed by a payload byte of the other
C21_WitnessPayload ==
    /\ conc.overlap
    /\ \E i \in 1..(Len(wire) - 1) :
         /\ wire[i].b >= 16 /\ wire[i + 1].b >= 16
         /\ wire[i].b \div 16 # wire[i + 1].b \div 16
         /\ wire[i].b % 16 = 1 /\ wire[i + 1].b % 16 = 1

\* the step is a stream sendmsg of the sender that moved bytes
StreamSendmsgMoved == Stream /\ s.pc = "sendmsg" /\ Len(wire') > Len(wire)

\* C22: in a stream send with descriptors, whatever the partial sends and the
\* transient errors, the control block goes with exactly one sendmsg call that
\* succeeds, the first: a call that failed with EINTR or EAGAIN is repeated
\* with the descriptors still attached, and no call after the first that
\* succeeded carries them.
C22_FdsWithFirstSendOnly ==
    /\ []((Stream /\ s.pc = "sendmsg") =>
            /\ s.fds_sent <=> (s.total_sent > 0 /\ s.fds # <<>>)
            /\ AttachControl(s.fds_sent, s.fds # <<>>)
                  <=> (s.total_sent = 0 /\ s.fds # <<>>))
    /\ [][/\ (StreamSendmsgMoved /\ s.total_sent = 0) =>
                wire'[Len(wire) + 1].fds = s.fds
          /\ (StreamSendmsgMoved /\ s.total_sent > 0) =>
                wire'[Len(wire) + 1].fds = <<>>
          /\ StreamSendmsgMoved =>
                \A i \in (Len(wire) + 2)..Len(wire') : wire'[i].fds = <<>>
          /\ (Stream /\ s.pc = "sendmsg" /\ transient') => s' = s]_vars

\* a sendmsg with descriptors has failed with a transient error before any
\* byte went out, and is about to be repeated with the descriptors attached
C22_Witness ==
    /\ Stream /\ s.pc = "sendmsg" /\ transient /\ r.pc = "idle"
    /\ s.total_sent = 0 /\ Len(s.fds) >= 2
    /\ AttachControl(s.fds_sent, s.fds # <<>>)

\* the first sendmsg has carried the descriptors with part of the payload, and
\* the next one is pending without them
C22_WitnessSecond ==
    /\ Stream /\ s.pc = "sendmsg"
    /\ s.total_sent >= 1 /\ Len(s.fds) >= 2
    /\ ~AttachControl(s.fds_sent, s.fds # <<>>)
    /\ wire # <<>> /\ wire[Len(wire)].fds = s.fds

\* the bytes w of a stream are the frames of the messages of log, in order:
\* for each an 8-byte header whose size field is the length of the payload
\* and whose count field is the number of descriptors, then the payload with
\* the descriptors on its first byte; the frame of a send still in progress
\* or failed is the last and may be cut short, with no payload byte before
\* the header is whole
RECURSIVE IsFrames(_, _)
IsFrames(w, log) ==
    IF log = <<>> THEN w = <<>>
    ELSE LET m   == Head(log)
             h   == Min(8, Len(w))
             len == Min(8 + Len(m.data), Len(w))
         IN
         /\ \A i \in 1..h : w[i].fds = <<>>
         /\ h = 8 =>
              /\ hdr_size([i \in 1..8 |-> w[i].b]) = Len(m.data)
              /\ hdr_fd_count([i \in 1..8 |-> w[i].b]) = Len(m.fds)
         /\ \A j \in 1..(len - 8) :
              /\ w[8 + j].b = m.data[j]
              /\ w[8 + j].fds = IF j = 1 THEN m.fds ELSE <<>>
         /\ IF m.res = "ok"
            THEN /\ Len(w) >= 8 + Len(m.data)
                 /\ IsFrames(SubSeq(w, 8 + Len(m.data) + 1, Len(w)), Tail(log))
            ELSE /\ Tail(log) = <<>>
                 /\ Len(w) <= 8 + Len(m.data)

\* what the receive in progress has read of the frame at the head of the
\* stream: header bytes, then payload bytes, the descriptors of the message
\* with the first of these
StreamRead ==
    LET hd == [i \in 1..Len(r.hdr) |-> [b |-> r.hdr[i], fds |-> <<>>]]
        pl == [j \in 1..Len(r.buf) |->
                 [b |-> r.buf[j],
                  fds |-> IF j = 1 /\ sent # <<>> THEN Head(sent).fds ELSE <<>>]]
    IN  IF r.pc = "read_all" THEN hd
        ELSE IF r.pc = "recvmsg" THEN hd \o pl
        ELSE <<>>

\* C23: in stream mode every message on the wire is an 8-byte header followed
\* at once by exactly payload_size payload bytes, payload_size the length of
\* the payload sent and descriptor_count the number of descriptors sent; the
\* header is written whole before the first payload byte, and the descriptors
\* go with the call that carries the first payload bytes.
C23_WireFrames ==
    (Stream /\ r.pc \in {"idle", "read_all", "recvmsg"}) =>
        IsFrames(StreamRead \o wire, sent)

\* a whole frame of the largest payload with descriptors, its header already
\* read by the receiver
C23_Witness ==
    /\ Stream /\ r.pc = "recvmsg"
    /\ sent # <<>> /\ sent[1].res = "ok"
    /\ Len(sent[1].data) = MaxSize /\ Len(sent[1].fds) >= 2
    /\ Len(wire) = MaxSize /\ wire[1].fds = sent[1].fds
    /\ IsFrames(StreamRead \o wire, sent)

\* C24: a stream receive reads the whole 8-byte header first and returns
\* failure, with no payload byte read, when the payload size of the header
\* exceeds the capacity of the caller's buffer; it never puts more bytes in
\* the caller's buffer than its capacity.
C24_OversizeRejected ==
    /\ []((Stream /\ r.pc = "recvmsg") =>
            /\ Len(r.hdr) = 8
            /\ r.hsize <= r.cap
            /\ r.total_read + r.msg.iov_len <= r.cap
            /\ Len(r.buf) <= r.cap)
    /\ []((Stream /\ HasRes) => Len(Res.data) <= Res.cap)
    /\ []((Stream /\ HasMsg /\ Len(ResMsg.data) > Res.cap) =>
            /\ ~Res.ok
            /\ Res.reads = 0
            /\ Res.data = <<>>
            /\ Res.why \in {"size", "EIO", "eof"})
    /\ [][(last' # <<>> /\ last'[1].why = "size") =>
            /\ r.pc = "read_all"
            /\ Len(r.hdr) + (Len(wire) - Len(wire')) = 8]_vars

\* a header announcing more than the buffer holds has been read whole, the
\* receive has failed, and the payload is still in the stream
C24_Witness ==
    /\ Stream /\ HasMsg
    /\ Len(ResMsg.data) > Res.cap
    /\ ResMsg.res = "ok"
    /\ ~Res.ok /\ Res.why = "size"
    /\ Len(wire) = Len(ResMsg.data)
    /\ wire[1].b = ResMsg.data[1]

\* C25: a stream receive offers a control buffer only to the first recvmsg of
\* the payload that succeeds; after that call the request is cleared, and the
\* descriptor count and descriptors reported to the caller are those of that
\* first call, which the receives of later chunks do not overwrite.
C25_FdsFromFirstRecvOnly ==
    /\ []((Stream /\ r.pc = "recvmsg") =>
            /\ r.msg.control => r.total_read = 0
            /\ r.total_read > 0 => r.msg.controllen = 0)
    /\ [][/\ (Stream /\ r.pc = "recvmsg" /\ r.total_read > 0 /\ r'.pc = "recvmsg") =>
                (r'.out_fd_count = r.out_fd_count /\ r'.fds = r.fds)
          /\ (Stream /\ r.pc = "recvmsg" /\ r.total_read > 0
                /\ last' # <<>> /\ last'[1].ok) =>
                (last'[1].nfd = r.out_fd_count /\ last'[1].fds = r.fds)
          /\ (Stream /\ r.pc = "recvmsg" /\ transient' /\ r'.pc = "recvmsg"
                /\ r'.total_read = r.total_read) => r'.msg = r.msg]_vars

\* a receive has returned the two descriptors that came with the first chunk
\* of a payload received in two chunks
C25_Witness ==
    /\ Stream /\ HasMsg /\ Res.ok
    /\ Res.reads >= 2
    /\ Res.nfd = 2 /\ Len(Res.fds) = 2
    /\ Len(ResMsg.fds) = 2

\* the step is a native sendmsg of the sender that put a datagram on the wire
NativeSendmsgMoved == ~Stream /\ s.pc = "sendmsg" /\ Len(wire') > Len(wire)

\* C26: in native mode a sendmsg that succeeds transfers the whole payload in
\* one call; when the call reports fewer bytes than asked for, the send stops
\* at an assertion: it returns neither success nor failure and does not call
\* again.
C26_NativeWholeOrFault ==
    [][/\ (NativeSendmsgMoved /\ wire'[Len(wire')].data = s.data) =>
             (s'.pc = "idle" /\ sent'[Len(sent')].res = "ok")
       /\ (NativeSendmsgMoved /\ wire'[Len(wire')].data # s.data) =>
             (s'.pc = "fault" /\ sent'[Len(sent')].res = "assert")
       /\ (~Stream /\ s.pc = "sendmsg" /\ s'.pc = "idle") =>
             (NativeSendmsgMoved /\ wire'[Len(wire')].data = s.data)
       /\ s.pc = "fault" => s' = s]_vars

\* the kernel has reported one byte of a two-byte message with descriptors, and
\* the send has stopped at the assertion
C26_Witness ==
    /\ ~Stream /\ s.pc = "fault"
    /\ s.size = MaxSize /\ s.fds # <<>>
    /\ sent # <<>> /\ sent[Len(sent)].res = "assert"
    /\ wire # <<>> /\ Len(wire[Len(wire)].data) < s.size

\* C27 as stated: in native mode a receive whose recvmsg delivers a byte count
\* other than the size asked for returns failure, truncation flagged or not,
\* and one whose recvmsg returns 0 returns failure.
C27_Original ==
    /\ (~Stream /\ HasMsg /\ ResMsg.res = "ok" /\ Len(ResMsg.data) # Res.cap) => ~Res.ok
    /\ (~Stream /\ HasRes /\ Res.chan = "drained") => ~Res.ok

\* C27: in native mode the receive of the client role returns failure when
\* its recvmsg delivers a byte count other than the size asked for, truncation
\* flagged or not; the receive of the server role returns failure when the
\* message is longer than the size asked for, and succeeds with the size
\* received when it is shorter; in both roles a recvmsg that returns 0 makes
\* the receive return failure.
C27_NativeSizeRule ==
    /\ (~Stream /\ HasMsg /\ ResMsg.res = "ok" /\ rrole = "proxy"
          /\ Len(ResMsg.data) # Res.cap) => ~Res.ok
    /\ (~Stream /\ HasMsg /\ ResMsg.res = "ok"
          /\ Len(ResMsg.data) > Res.cap) => (~Res.ok /\ Res.why \in {"truncated", "EIO"})
    /\ (~Stream /\ HasMsg /\ rrole = "render" /\ Res.ok) =>
          (Res.size = Len(ResMsg.data) /\ Res.size <= Res.cap)
    /\ (~Stream /\ HasRes /\ Res.chan = "drained") =>
          (~Res.ok /\ Res.why \in {"eof", "EIO"})
    /\ (~Stream /\ r.pc = "recvmsg") =>
          \A k \in KRecvmsgResults :
              k.ret = 0 => socket_recvmsg(rrole, k).st = "false"

\* the client role has received a message shorter than asked for, not flagged
\* as truncated, and the receive has failed
C27_Witness ==
    /\ ~Stream /\ HasMsg /\ rrole = "proxy"
    /\ ResMsg.res = "ok"
    /\ Len(ResMsg.data) < Res.cap
    /\ ~Res.ok /\ Res.why = "incomplete"

\* a receive has failed at a recvmsg that returned 0
C27_WitnessEof ==
    /\ ~Stream /\ HasRes /\ Res.chan = "drained"
    /\ ~Res.ok /\ Res.why = "eof"

\* the bytes of a stream, without the descriptors that ride on them
WireBytes(w) == [i \in 1..Len(w) |-> w[i].b]

\* one step of a header transfer: read_all and write_all move the bytes in
\* order, return true only when all of them have moved, and return false at a
\* read of 0 bytes or an error that is not transient
C28_Step ==
    /\ (s.pc = "write_all" /\ s'.pc = "write_all" /\ s' # s) =>
          \E n \in 1..(Len(s.remaining) - 1) :
              /\ s'.remaining = SubSeq(s.remaining, n + 1, Len(s.remaining))
              /\ WireBytes(wire') = WireBytes(wire) \o SubSeq(s.remaining, 1, n)
    /\ (s.pc = "write_all" /\ s'.pc \in {"sendmsg", "fault"}) =>
          WireBytes(wire') = WireBytes(wire) \o s.remaining
    /\ (s.pc = "write_all" /\ s'.pc = "failed") =>
          /\ wire' = wire
          /\ sent'[Len(sent')].res \notin {"EINTR", "EAGAIN", "ok", "run"}
    /\ (r.pc = "read_all" /\ r'.pc = "read_all" /\ r' # r) =>
          \E n \in 1..(7 - Len(r.hdr)) :
              /\ n <= Len(wire)
              /\ r'.hdr = r.hdr \o SubSeq(WireBytes(wire), 1, n)
              /\ wire' = SubSeq(wire, n + 1, Len(wire))
    /\ (r.pc = "read_all"
          /\ (r'.pc = "recvmsg" \/ (last' # <<>> /\ last'[1].why \in {"size", ""}))) =>
          LET n == 8 - Len(r.hdr) IN
          /\ n <= Len(wire)
          /\ wire' = SubSeq(wire, n + 1, Len(wire))
          /\ r'.pc = "recvmsg" => r'.hdr = r.hdr \o SubSeq(WireBytes(wire), 1, n)
    /\ (r.pc = "read_all" /\ wire = <<>> /\ s.pc = "closed" /\ r' # r) =>
          /\ r'.pc = "failed"
          /\ ~last'[1].ok /\ last'[1].why \in {"eof", "EIO"}
    /\ (r.pc = "read_all" /\ r'.pc = "failed" /\ last'[1].why # "size") =>
          /\ wire' = wire
          /\ last'[1].why \in {"eof", "EIO"}
    /\ (~signals /\ (r.pc = "read_all" \/ s.pc = "write_all")) => ~transient'

\* C28: read_all returns success only after exactly the bytes asked for have
\* been read, in order, and write_all only after exactly the bytes given have
\* been written, in order; a read that returns 0 before that makes read_all
\* return failure, and an error that is not transient makes either return
\* failure.
C28_AllOrFail == [][C28_Step]_vars

\* a header is half written and half read
C28_Witness ==
    /\ s.pc = "write_all" /\ Len(s.remaining) = 4
    /\ r.pc = "read_all" /\ Len(r.hdr) = 4

\* read_all has returned failure at a read of 0 bytes after a part of a header
C28_WitnessEof ==
    /\ Stream /\ HasRes /\ ~Res.ok /\ Res.why = "eof" /\ Res.reads = 0
    /\ sent # <<>> /\ sent[Len(sent)].res = "EIO" /\ sent[Len(sent)].parts = 0
    /\ s.pc = "closed"

\* C29: every descriptor a successful receive hands to its caller is
\* close-on-exec in the receiving process when the receive returns, in the
\* stream build and in the native build.
C29_ReceivedFdsCloexec ==
    (HasRes /\ Res.ok) =>
        \A i \in 1..Len(Res.open) :
            /\ Res.open[i] # <<>>
            /\ Res.open[i][1].fd = Res.fds[i]
            /\ Res.open[i][1].cloexec

\* a native receive has handed over two descriptors
C29_Witness ==
    /\ ~Stream /\ HasRes /\ Res.ok
    /\ Res.nfd = 2 /\ Len(Res.open) = 2

\* a stream receive has handed over two descriptors
C29_WitnessStream ==
    /\ Stream /\ HasRes /\ Res.ok
    /\ Res.nfd = 2 /\ Len(Res.open) = 2

\* the control block SendMsgHdr builds for the descriptors fds is the one the
\* code is to build: none for no descriptor, otherwise one SCM_RIGHTS message
\* whose length field is the header plus 4 bytes for each descriptor, within
\* msg_controllen, holding the descriptors of the caller in order
ControlBlockFor(fds) ==
    LET fd_count == Len(fds)
        msg == SendMsgHdr(1, fd_count, fds)
    IN  IF fd_count = 0
        THEN ~msg.control /\ msg.controllen = 0 /\ KSendFiles(msg) = <<>>
        ELSE /\ msg.control
             /\ msg.cmsg.level = "SOL_SOCKET" /\ msg.cmsg.type = "SCM_RIGHTS"
             /\ msg.cmsg.len = CmsgAlign(CmsgHdrSize) + 4 * fd_count
             /\ msg.cmsg.len <= msg.controllen
             /\ msg.controllen <= CMSG_SPACE(4 * MAX_FD_COUNT(Other(rrole)))
             /\ msg.cmsg.data = fds
             /\ get_received_fds(msg) = fds
             /\ KSendFiles(msg) = fds

\* C30: a send with 1 to 8 descriptors builds the control block for exactly
\* that many: the length field of its header is the length of fd_count
\* descriptors and its data are the descriptors of the caller in order; a send
\* with no descriptor attaches no control block.  Checked for the message of
\* every send that has reached sendmsg, and for every count up to the maximum.
C30_ControlBlock ==
    s.pc = "sendmsg" =>
        /\ ControlBlockFor(s.fds)
        /\ \A n \in 0..MAX_FD_COUNT(Other(rrole)) :
               ControlBlockFor([i \in 1..n |-> 10 + i])

\* a send with two descriptors has reached sendmsg in the native build
C30_Witness ==
    /\ s.pc = "sendmsg" /\ Len(s.fds) = 2 /\ build = "linux"
    /\ SendMsgHdr(s.size, 2, s.fds).controllen = 24

\* a send without descriptors has reached sendmsg
C30_WitnessNone ==
    /\ s.pc = "sendmsg" /\ s.fds = <<>>
    /\ ~SendMsgHdr(s.size, 0, s.fds).control

\* a step of a send call: from its entry to its return, failure or fault
SendStep == (s.pc \in {"idle", "write_all", "sendmsg"} /\ s' # s /\ s'.pc # "closed")
               \/ (InSend(s) /\ transient')

\* C31: a send, whether it succeeds or fails, leaves the sender's own
\* descriptors as they were: open if they were open, and no step of a send
\* closes a descriptor the caller passed to it.
C31_SendKeepsFds == [][SendStep => sOpen' = sOpen]_vars

\* a send with descriptors has returned success and the sender's descriptors
\* are open
C31_Witness ==
    /\ s.pc = "idle" /\ sOpen
    /\ sent # <<>> /\ sent[Len(sent)].res = "ok" /\ sent[Len(sent)].fds # <<>>

\* a send with descriptors has returned failure and the sender's descriptors
\* are open
C31_WitnessFailed ==
    /\ s.pc = "failed" /\ sOpen
    /\ sent # <<>> /\ sent[Len(sent)].res = "EIO" /\ sent[Len(sent)].fds # <<>>

\* C32: the descriptor stored in an endpoint is the one given to init, which
\* is not negative, and no send, receive or is_connected call, successful or
\* failed, changes it: the endpoint has no other state.
C32_FdSetOnce ==
    /\ [](/\ s.pc # "fault" => s.fd >= 0
          /\ r.pc # "fault" => r.fd >= 0)
    /\ [][s'.fd = s.fd /\ r'.fd = r.fd]_vars

\* on endpoints initialized from descriptor 5, a send has returned and an
\* is_connected call has just returned
C32_Witness ==
    /\ s.fd = 5 /\ r.fd = 5
    /\ sent # <<>> /\ sent[Len(sent)].res \in {"ok", "EIO"}
    /\ conn # <<>>

\* on an endpoint initialized from descriptor 5, a receive has returned failure
C32_WitnessReceive ==
    /\ r.fd = 5 /\ HasRes /\ ~Res.ok /\ r.pc = "failed"

\* C33: every send call and every receive call eventually returns, the calls
\* in which a write or sendmsg reports 0 bytes included.
C33_CallsReturn ==
    /\ InSend(s) ~> ~InSend(s)
    /\ InReceive(r) ~> ~InReceive(r)

\* a write of the header has reported 0 bytes and the send is still in its loop
C33_Witness ==
    /\ s.pc = "write_all" /\ s.zero = 1
    /\ Len(s.remaining) = 8

\* a sendmsg of the stream loop has reported 0 bytes and the send is still in
\* its loop
C33_WitnessSendmsg ==
    /\ Stream /\ s.pc = "sendmsg" /\ s.zero = 1

\* the calls return when the reports of 0 bytes end
C33_ReturnIfZeroEnds ==
    (<>[][s'.zero = s.zero]_vars) => C33_CallsReturn

\* C34: in the stream loops the counters stay in range (0 <= total_sent <=
\* size, 0 <= total_read <= payload_size, 0 <= remaining <= n), every system
\* call moves at most the bytes still missing, and a successful receive has
\* consumed exactly 8 + payload_size bytes of the stream: the payload it
\* returns is that of the first message and no byte of the next one.
C34_CountersInRange ==
    /\ [](Stream =>
            /\ 0 <= s.total_sent /\ s.total_sent <= s.size
            /\ s.pc = "sendmsg" => s.total_sent < s.size
            /\ s.pc = "sendmsg" =>
                  \A res \in KSendmsgResults : res.ret <= s.size - s.total_sent
            /\ Len(s.remaining) <= 8
            /\ s.pc = "write_all" =>
                  /\ Len(s.remaining) >= 1
                  /\ \A res \in KWriteResults : res.ret <= Len(s.remaining)
            /\ r.pc = "read_all" =>
                  /\ Len(r.hdr) < 8
                  /\ \A res \in KReadResults : res.ret <= 8 - Len(r.hdr)
            /\ 0 <= r.total_read /\ r.total_read <= r.hsize
            /\ r.pc = "recvmsg" =>
                  /\ r.total_read < r.hsize /\ r.hsize <= r.cap
                  /\ Len(r.buf) = r.total_read
                  /\ r.msg.iov_len = r.hsize - r.total_read
                  /\ \A k \in KRecvmsgResults : k.ret <= r.hsize - r.total_read)
    /\ [][(Stream /\ InReceive(r) /\ last' # <<>> /\ last'[1].ok) =>
            /\ Len(r.hdr) + r.total_read + (Len(wire) - Len(wire'))
                  = 8 + last'[1].size
            /\ last'[1].size = Len(last'[1].data)
            /\ last'[1].msg # <<>> /\ last'[1].data = last'[1].msg[1].data
            /\ IsFrames(wire', sent')]_vars

\* a receive has returned a payload of the largest size, read in two parts,
\* while bytes of the next message are in the stream
C34_Witness ==
    /\ Stream /\ HasRes /\ Res.ok
    /\ Res.size = MaxSize /\ Res.reads = 2
    /\ wire # <<>> /\ r.pc = "idle"

\* C35: a stream receive that fails its header check (payload_size above the
\* buffer size in the server role, other than the expected size in the client
\* role) has consumed exactly the 8 header bytes and none after them, has
\* written nothing to the buffer of the caller, and has reported no size and
\* no descriptor count.
C35_HeaderCheckFrame ==
    [][(Stream /\ r.pc = "read_all" /\ last' # <<>> /\ last'[1].why = "size") =>
         LET n == 8 - Len(r.hdr)
             hdr == r.hdr \o SubSeq(WireBytes(wire), 1, n)
         IN
         /\ n <= Len(wire)
         /\ wire' = SubSeq(wire, n + 1, Len(wire))
         /\ IF rrole = "render" THEN hdr_size(hdr) > r.cap ELSE hdr_size(hdr) # r.cap
         /\ r.total_read = 0 /\ r.buf = <<>>
         /\ ~last'[1].ok
         /\ last'[1].size = 0 /\ last'[1].data = <<>>
         /\ last'[1].nfd = 0 /\ last'[1].fds = <<>>
         /\ last'[1].reads = 0
         /\ rTab' = rTab]_vars

\* a receive has failed its header check and the payload of the rejected
\* message is what the stream holds next
C35_Witness ==
    /\ Stream /\ HasMsg /\ ~Res.ok /\ Res.why = "size"
    /\ Len(ResMsg.data) = MaxSize /\ Res.cap = 1
    /\ ResMsg.res = "ok"
    /\ WireBytes(wire) = ResMsg.data

\* C36: for every payload size a stream send accepts, the 32-bit payload_size
\* written in the header equals the size the caller declared: the conversion
\* loses nothing.
C36_HeaderSizeIsDeclared ==
    wide # <<>> =>
        /\ wide[1].size.hi = 0
        /\ hdr_size(wide[1].hdr) = wide[1].size.lo

\* a send of 2^32 + 1 bytes has built a header that announces 1 byte
C36_Witness ==
    /\ wide # <<>>
    /\ wide[1].size = SizeT(1, 1)
    /\ hdr_size(wide[1].hdr) = 1

\* the header announces the low 32 bits of the declared size, and the size
\* declared when that fits in 32 bits
C36_HeaderSizeIsLow32 ==
    wide # <<>> =>
        /\ hdr_size(wide[1].hdr) = wide[1].size.lo
        /\ hdr_fd_count(wide[1].hdr) = wide[1].fd_count

\* C37: in a stream receive the control-buffer length handed to recvmsg is at
\* most the size of cmsg_buf, which is declared for 8 descriptors, whatever
\* the descriptor count of the header and the max_fd_count of the caller.
C37_ControlLenWithinBuffer ==
    (Stream /\ r.pc = "recvmsg" /\ r.msg.control) =>
        LET expected_fds == Min(hdr_fd_count(r.hdr), r.maxfd) IN
        /\ r.msg.controllen = CMSG_SPACE(4 * expected_fds)
        /\ CMSG_SPACE(4 * expected_fds) <= CMSG_SPACE(4 * MAX_FD_COUNT(rrole))

\* a header announcing 9 descriptors has been received by a caller asking for
\* up to 9: the control block handed to recvmsg is the length of 9
C37_Witness ==
    /\ Stream /\ r.pc = "recvmsg" /\ r.msg.control
    /\ hdr_fd_count(r.hdr) = 9 /\ r.maxfd = 9
    /\ r.msg.controllen = CMSG_SPACE(4 * 9)
    /\ r.total_read = 0

\* the length is within the buffer whenever the caller asks for at most 8
C37_WithinBufferUpTo8 ==
    (Stream /\ r.pc = "recvmsg" /\ r.msg.control /\ r.maxfd <= MAX_FD_COUNT(rrole)) =>
        r.msg.controllen <= CMSG_SPACE(4 * MAX_FD_COUNT(rrole))

\* the exchange has ended: the client has received the reply, or a call of
\* one side has returned failure or stopped at an assertion
XchgEnd ==
    \/ rrole = "proxy" /\ HasRes /\ Res.ok
    \/ r.pc \in {"failed", "fault"}
    \/ s.pc \in {"failed", "fault"}

C38_WitnessBlocked ==
    /\ Stream /\ s.pc = "sendmsg" /\ KRoom = 0
    /\ InReceive(r)

\* C39: on every successful receive the descriptor count reported equals the
\* number of descriptors stored into the caller's array, lies between 0 and
\* max_fd_count, and is 0 when max_fd_count is 0 or fds is NULL.
C39_ReportedFdCount ==
    HasRes /\ Res.ok =>
        /\ Res.nfd = Len(Res.fds)
        /\ 0 <= Res.nfd /\ Res.nfd <= Res.maxfd
        /\ (Res.maxfd = 0 \/ Res.nofds) => Res.nfd = 0

\* a receive has returned descriptors and reports their number
C39_Witness ==
    /\ HasMsg /\ Res.ok /\ ~Res.nofds
    /\ Res.nfd >= 1 /\ Res.nfd = Len(Res.fds)

\* a stream receive without a descriptor array has received a message that
\* carries descriptors, and reports none
C39_WitnessNoArray ==
    /\ Stream /\ HasMsg /\ Res.ok /\ Res.nofds /\ Res.maxfd >= 1
    /\ ResMsg.fds # <<>> /\ Res.nfd = 0

====
